---- MODULE Spec2Model ----
(***************************************************************************)
(* luckydrawAR: the game state machine of src/App.tsx (first App           *)
(* component of the file, lines 1-469) and the hand tracker of             *)
(* src/components/CameraLayer.tsx (second CameraLayer component of the     *)
(* file, lines 635-1307).                                                  *)
(*                                                                         *)
(* Time is wall-clock milliseconds (Date.now()).  A React ref or state     *)
(* holding null is modelled by 0: the code only ever tests such a value    *)
(* with `!x`, which is true of both null and 0, and the clock never        *)
(* reads 0.  The timer state (seconds in the code, elapsed / 1000) is      *)
(* kept in milliseconds; it is 0 exactly when the code's value is 0.       *)
(* selectedImage (App.tsx:33) is set only by a click inside the open       *)
(* gallery (App.tsx:387), whose close button lies under the viewer, and is *)
(* cleared with it by handleReset: it is non-null only while isGalleryOpen *)
(* is true, so that `isGalleryOpen || selectedImage` is isGalleryOpen.     *)
(***************************************************************************)
EXTENDS Integers, Sequences, FiniteSets, TLC

VARIABLES
    now,                        \* Date.now()
    gameState,                  \* App.tsx:14
    participantCount,           \* App.tsx:15
    winnerCount,                \* App.tsx:16
    detectedHands,              \* App.tsx:17
    winningStableIds,           \* App.tsx:18
    warningMessage,             \* App.tsx:19
    timer,                      \* App.tsx:22
    holdStartTimeRef,           \* App.tsx:25
    lastValidConditionTimeRef,  \* App.tsx:26
    lastStateChangeTimeRef,     \* App.tsx:43
    handGestureStates,          \* App.tsx:41
    handFacingHistory,          \* App.tsx:42
    isGalleryOpen,              \* App.tsx:32
    capturedWinnerIds,          \* App.tsx:31
    captureTimeoutsRef,         \* App.tsx:34
    shouldCapture,              \* App.tsx:29
    seen,                       \* observation of the published hand lists (history)
    last,                       \* observation of the last operation (history)
    tracks,                     \* CameraLayer.tsx:739 tracksRef
    nextStableId,               \* CameraLayer.tsx:679
    detectedHandsRef,           \* CameraLayer.tsx:736
    lastLogicUpdateTimeRef,     \* CameraLayer.tsx:732
    lastHandCountRef,           \* CameraLayer.tsx:733
    trail,                      \* observation of the detections delivered (history)
    rawInputs,                  \* CameraLayer.tsx:1084, the detections of the last frame
    candidateWinnerCountRef,    \* App.tsx:497 (the App with the SET_WINNER_COUNT phase)
    isDetectingRef,             \* CameraLayer.tsx:748
    generation,                 \* the run of the camera effect that is mounted (CameraLayer.tsx:775)
    loopAt,                     \* where the detect loop of each run is (CameraLayer.tsx:1215-1226)
    inFlight                    \* the inference each loop has submitted with send()

gameVars == <<now, gameState, participantCount, winnerCount, detectedHands,
              winningStableIds, warningMessage, timer, holdStartTimeRef,
              lastValidConditionTimeRef, lastStateChangeTimeRef,
              handGestureStates, handFacingHistory, isGalleryOpen,
              capturedWinnerIds, captureTimeoutsRef, shouldCapture,
              seen, last>>

trackerVars == <<tracks, nextStableId, detectedHandsRef,
                 lastLogicUpdateTimeRef, lastHandCountRef, trail, rawInputs>>

countVars == <<candidateWinnerCountRef>>

loopVars == <<generation, loopAt, inFlight>>

detectVars == <<isDetectingRef, loopVars>>

vars == <<gameVars, trackerVars, countVars, detectVars>>

----------------------------------------------------------------------------
(* Bounds of the model *)

StartTime == 10000          \* clock reading when the component is mounted
MaxWinnerCount == 2         \* winnerCount is only raised up to this value
MaxGenerations == 3         \* the camera effect runs at most this many times

----------------------------------------------------------------------------
(* Program constants *)

COOLDOWN_MS == 300           \* App.tsx:160
STABILITY_THRESHOLD == 150   \* App.tsx:189
GESTURE_TIMEOUT_MS == 2000   \* App.tsx:200
FIST_HOLD_MS == 3000         \* App.tsx:283
GRACE_PERIOD_MS == 1000      \* App.tsx:247
CAPTURE_DELAY_MS == 500      \* App.tsx:307
WINNER_COUNT_CAP == 20       \* App.tsx:112
COUNT_COOLDOWN_MS == 1000    \* App.tsx:603
COUNT_GRACE_MS == 500        \* App.tsx:661
COUNT_HOLD_MS == 3000        \* App.tsx:728

Null == 0

Min(a, b) == IF a < b THEN a ELSE b

\* src/types.ts GameState, in the order of the round
PhaseOrd(s) ==
    CASE s = "IDLE" -> 0
      [] s = "SETUP" -> 1
      [] s = "DETECT_PARTICIPANTS" -> 2
      [] s = "WAIT_FOR_FISTS_READY" -> 3
      [] s = "DRAWING" -> 4
      [] s = "SHOW_WINNER" -> 5

\* the observation recorded for an operation: which kind of operation ran,
\* the values it passed to setGameState, in order, the stable ids of the
\* hands whose gesture sequence completed in it (App.tsx:213-218), and how
\* the hold condition evaluated in it and in the tick before it
Obs(op, sets) ==
    [op |-> op, sets |-> sets, trig |-> {}, cond |-> "none", prevCond |-> "none"]

----------------------------------------------------------------------------
(* Finite maps keyed by stable id (JS Map) *)

Has(m, k) == k \in DOMAIN m
MapSet(m, k, v) == [x \in (DOMAIN m) \cup {k} |-> IF x = k THEN v ELSE m[x]]
MapDelete(m, k) == [x \in (DOMAIN m) \ {k} |-> m[x]]
EmptyMap == [x \in {} |-> 0]

SeqIds(hands) == {hands[i].stableId : i \in 1..Len(hands)}

----------------------------------------------------------------------------
(* changeState, App.tsx:51-59: the assignments every caller shares *)

\* fault variant: the hold timer and the advisory message left as they are
changeState_keepHold(newState, t) ==
    /\ gameState' = newState
    /\ lastStateChangeTimeRef' = t
    /\ UNCHANGED <<holdStartTimeRef, lastValidConditionTimeRef, timer, warningMessage>>

changeState(newState, t) ==
    /\ gameState' = newState
    /\ lastStateChangeTimeRef' = t
    /\ holdStartTimeRef' = Null
    /\ lastValidConditionTimeRef' = 0
    /\ timer' = 0
    /\ warningMessage' = "none"

\* handleStreamReady, App.tsx:61-69
handleStreamReady ==
    /\ gameState' = IF gameState = "IDLE" THEN "SETUP" ELSE gameState
    /\ last' = Obs("handler",
                   IF gameState = "IDLE" THEN <<"SETUP">> ELSE <<>>)
    /\ UNCHANGED <<trackerVars, countVars, detectVars, seen, now, participantCount, winnerCount, detectedHands,
                   winningStableIds, warningMessage, timer, holdStartTimeRef,
                   lastValidConditionTimeRef, lastStateChangeTimeRef,
                   handGestureStates, handFacingHistory, isGalleryOpen,
                   capturedWinnerIds, captureTimeoutsRef, shouldCapture>>

\* fault variant: the timers left running
ClearTimeouts_keep(tm) == tm

\* App.tsx:84-85: clearTimeout on every pending capture, then clear()
ClearTimeouts(tm) == EmptyMap

\* handleReset, App.tsx:71-86; the observation notes in cond the phase it
\* was called in and in prevCond whether a capture delay was pending
handleReset ==
    /\ changeState("SETUP", now)
    /\ participantCount' = 0
    /\ winningStableIds' = <<>>
    /\ capturedWinnerIds' = {}
    /\ isGalleryOpen' = FALSE
    /\ shouldCapture' = FALSE
    /\ handGestureStates' = EmptyMap
    /\ handFacingHistory' = EmptyMap
    /\ captureTimeoutsRef' = ClearTimeouts(captureTimeoutsRef)
    /\ last' = [Obs("handleReset", <<"SETUP">>) EXCEPT
                   !.cond = gameState,
                   !.prevCond = IF captureTimeoutsRef = EmptyMap THEN "none" ELSE "pending"]
    /\ UNCHANGED <<trackerVars, countVars, detectVars, seen, now, winnerCount, detectedHands>>

\* handleStartDetection, App.tsx:88-90
handleStartDetection ==
    /\ changeState("DETECT_PARTICIPANTS", now)
    /\ last' = Obs("handler", <<"DETECT_PARTICIPANTS">>)
    /\ UNCHANGED <<trackerVars, countVars, detectVars, seen, now, participantCount, winnerCount, detectedHands,
                   winningStableIds, handGestureStates, handFacingHistory,
                   isGalleryOpen, capturedWinnerIds, captureTimeoutsRef,
                   shouldCapture>>

\* fault variant: the confirmation without the test of the counts
ConfirmCall_noGate(pc, wc, gs) ==
    [warn |-> FALSE, advance |-> gs = "DETECT_PARTICIPANTS"]

\* handleConfirmParticipants, App.tsx:92-106, as one call: the result is
\* [warn, advance]; participantCountRef.current is participantCount
\* (App.tsx:49 runs before the game loop of the same commit)
ConfirmCall(pc, wc, gs) ==
    IF pc <= wc
    THEN [warn |-> TRUE, advance |-> FALSE]
    ELSE [warn |-> FALSE, advance |-> gs = "DETECT_PARTICIPANTS"]

\* the confirm button, GameOverlay -> handleConfirmParticipants
handleConfirmParticipants ==
    LET r == ConfirmCall(participantCount, winnerCount, gameState) IN
    /\ warningMessage' = IF r.warn THEN "needMore" ELSE warningMessage
    /\ gameState' = IF r.advance THEN "WAIT_FOR_FISTS_READY" ELSE gameState
    /\ lastStateChangeTimeRef' = IF r.advance THEN now ELSE lastStateChangeTimeRef
    /\ last' = Obs("handler",
                   IF r.advance THEN <<"WAIT_FOR_FISTS_READY">> ELSE <<>>)
    /\ UNCHANGED <<trackerVars, countVars, detectVars, seen, now, participantCount, winnerCount, detectedHands,
                   winningStableIds, timer, holdStartTimeRef,
                   lastValidConditionTimeRef, handGestureStates,
                   handFacingHistory, isGalleryOpen, capturedWinnerIds,
                   captureTimeoutsRef, shouldCapture>>

\* updateWinnerCount, App.tsx:108-115
NextWinnerCount(prev, delta) ==
    LET next == prev + delta IN
    IF next < 1 THEN 1
    ELSE IF next > WINNER_COUNT_CAP THEN WINNER_COUNT_CAP
    ELSE next

updateWinnerCount(delta) ==
    /\ winnerCount + delta <= MaxWinnerCount
    /\ winnerCount' = NextWinnerCount(winnerCount, delta)
    /\ last' = Obs("handler", <<>>)
    /\ UNCHANGED <<trackerVars, countVars, detectVars, seen, now, gameState, participantCount, detectedHands,
                   winningStableIds, warningMessage, timer, holdStartTimeRef,
                   lastValidConditionTimeRef, lastStateChangeTimeRef,
                   handGestureStates, handFacingHistory, isGalleryOpen,
                   capturedWinnerIds, captureTimeoutsRef, shouldCapture>>

\* onOpenGallery, App.tsx:371, and the gallery's close button, App.tsx:420
setIsGalleryOpen(open) ==
    /\ isGalleryOpen # open
    /\ isGalleryOpen' = open
    /\ last' = Obs("handler", <<>>)
    /\ UNCHANGED <<trackerVars, countVars, detectVars, seen, now, gameState, participantCount, winnerCount, detectedHands,
                   winningStableIds, warningMessage, timer, holdStartTimeRef,
                   lastValidConditionTimeRef, lastStateChangeTimeRef,
                   handGestureStates, handFacingHistory,
                   capturedWinnerIds, captureTimeoutsRef, shouldCapture>>

----------------------------------------------------------------------------
(* Central game loop, App.tsx:156-322 *)

InCooldown_short(t, lastChange) == t - lastChange < COOLDOWN_MS \div 3

\* the cooldown test, App.tsx:158-162
InCooldown(t, lastChange) == t - lastChange < COOLDOWN_MS

\* the stability test, App.tsx:189-192, negated: the facing is trusted
IsStable(t, since) == ~(t - since < STABILITY_THRESHOLD)

\* fault variant: the timeout test left out
GestureTimedOut_never(g, t) == FALSE

\* the gesture timeout test, App.tsx:200
GestureTimedOut(g, t) == g.step > 0 /\ t - g.lastTime > GESTURE_TIMEOUT_MS

\* fault variant: a facing that is not the required one resets the step
NextStep_reset(step, stableFacing) ==
    IF step = 0 THEN (IF stableFacing = "Palm" THEN 1 ELSE 0)
    ELSE IF step = 1 THEN (IF stableFacing = "Back" THEN 2 ELSE 0)
    ELSE IF step = 2 THEN (IF stableFacing = "Palm" THEN 3 ELSE 0)
    ELSE 0

\* fault variant: the completed sequence started again at step 1
NextStep_wrap(step, stableFacing) ==
    IF step = 0 THEN (IF stableFacing = "Palm" THEN 1 ELSE step)
    ELSE IF step = 1 THEN (IF stableFacing = "Back" THEN 2 ELSE step)
    ELSE IF step = 2 THEN (IF stableFacing = "Palm" THEN 3 ELSE step)
    ELSE IF step = 3 THEN (IF stableFacing = "Back" THEN 1 ELSE step)
    ELSE step

\* the step transitions, App.tsx:204-220
NextStep(step, stableFacing) ==
    IF step = 0 THEN (IF stableFacing = "Palm" THEN 1 ELSE step)
    ELSE IF step = 1 THEN (IF stableFacing = "Back" THEN 2 ELSE step)
    ELSE IF step = 2 THEN (IF stableFacing = "Palm" THEN 3 ELSE step)
    ELSE IF step = 3 THEN (IF stableFacing = "Back" THEN 0 ELSE step)
    ELSE step

\* fault variant: the trigger without the test of the facing
IsTrigger_anyFacing(step, stableFacing) == step = 3

\* the trigger point, App.tsx:212-218
IsTrigger(step, stableFacing) == step = 3 /\ stableFacing = "Back"

\* one iteration of detectedHands.forEach, App.tsx:177-225.
\* acc = [fh, gs, trig, confirm]; n = detectedHands.length; wc = winnerCount
GestureHand(acc, hand, t, n, wc) ==
    LET id == hand.stableId
        hasHist == Has(acc.fh, id)
    IN
    IF ~hasHist \/ acc.fh[id].facing # hand.facing
    THEN \* App.tsx:183-187
         [acc EXCEPT !.fh = MapSet(acc.fh, id, [facing |-> hand.facing, since |-> t])]
    ELSE IF ~IsStable(t, acc.fh[id].since)
    THEN \* App.tsx:190-192
         acc
    ELSE
         LET stableFacing == acc.fh[id].facing
             stored == IF Has(acc.gs, id) THEN acc.gs[id]
                       ELSE [step |-> 0, lastTime |-> t]
             gState == IF GestureTimedOut(stored, t)
                       THEN [step |-> 0, lastTime |-> t] ELSE stored
             trigger == IsTrigger(gState.step, stableFacing)
             nextStep == NextStep(gState.step, stableFacing)
         IN
         [fh |-> acc.fh,
          gs |-> IF nextStep # gState.step
                 THEN MapSet(acc.gs, id, [step |-> nextStep, lastTime |-> t])
                 ELSE acc.gs,
          trig |-> IF trigger THEN acc.trig \cup {id} ELSE acc.trig,
          confirm |-> acc.confirm \/ (trigger /\ n > wc)]

RECURSIVE GestureFold(_, _, _, _, _)
GestureFold(acc, hands, i, t, wc) ==
    IF i > Len(hands) THEN acc
    ELSE GestureFold(GestureHand(acc, hands[i], t, Len(hands), wc), hands, i + 1, t, wc)

\* cleanup of stale histories, App.tsx:169-175, then the forEach
GestureRun(fh, gs, hands, t, wc) ==
    LET live == SeqIds(hands)
        fh1 == [x \in (DOMAIN fh) \cap live |-> fh[x]]
        gs1 == [x \in (DOMAIN gs) \ ((DOMAIN fh) \ live) |-> gs[x]]
    IN GestureFold([fh |-> fh1, gs |-> gs1, trig |-> {}, confirm |-> FALSE],
                   hands, 1, t, wc)

\* performDraw, App.tsx:324-344 --------------------------------------------

Swap(s, a, b) == [s EXCEPT ![a] = s[b], ![b] = s[a]]

\* fault variant: the loop left at i > 1, before its last swap
RECURSIVE FisherYates_short(_, _, _)
FisherYates_short(indices, i, js) ==
    IF i < 2 THEN indices
    ELSE FisherYates_short(Swap(indices, i + 1, js[i] + 1), i - 1, js)

\* the shuffle loop, App.tsx:330-333; js[i] is the value of j drawn at i
RECURSIVE FisherYates(_, _, _)
FisherYates(indices, i, js) ==
    IF i < 1 THEN indices
    ELSE FisherYates(Swap(indices, i + 1, js[i] + 1), i - 1, js)

\* fault variant: a random source that always returns its largest value
ShuffleChoices_last(poolSize) ==
    {[i \in 1..(poolSize - 1) |-> i]}

\* the values Math.floor(Math.random() * (i + 1)) can take, for each i
ShuffleChoices(poolSize) ==
    {js \in [1..(poolSize - 1) -> 0..(poolSize - 1)] :
        \A i \in 1..(poolSize - 1) : js[i] <= i}

\* fault variant: the pool taken from participantCount alone
PoolSize_participants(hands, pc) == pc

\* App.tsx:325-326
PoolSize(hands, pc) == IF Len(hands) > 0 THEN Len(hands) ELSE pc

DrawIds(hands, pc, wc, js) ==
    LET poolSize == PoolSize(hands, pc)
        countToSelect == Min(wc, poolSize)
        indices == FisherYates([k \in 1..poolSize |-> k - 1], poolSize - 1, js)
        winningIndices == SubSeq(indices, 1, countToSelect)
        mapped == [k \in 1..Len(winningIndices) |->
                     IF winningIndices[k] + 1 <= Len(hands)
                     THEN hands[winningIndices[k] + 1].stableId ELSE -1]
    IN SelectSeq(mapped, LAMBDA id : id # -1)

\* performDraw, App.tsx:324-344, on the hands and counts of the render
performDraw ==
    /\ gameState = "DRAWING"
    /\ \E js \in ShuffleChoices(PoolSize(detectedHands, participantCount)) :
          winningStableIds' = DrawIds(detectedHands, participantCount, winnerCount, js)
    /\ changeState("SHOW_WINNER", now)
    /\ last' = Obs("handler", <<"SHOW_WINNER">>)
    /\ UNCHANGED <<trackerVars, countVars, detectVars, seen, now, participantCount, winnerCount, detectedHands,
                   handGestureStates, handFacingHistory, isGalleryOpen,
                   capturedWinnerIds, captureTimeoutsRef, shouldCapture>>

\* fault variant: the captured set not consulted
CaptureHand_again(tm, hand, t, winners, captured) ==
    LET id == hand.stableId IN
    IF id \in winners
    THEN IF ~hand.isFist
         THEN (IF ~Has(tm, id) THEN MapSet(tm, id, t + CAPTURE_DELAY_MS) ELSE tm)
         ELSE (IF Has(tm, id) THEN MapDelete(tm, id) ELSE tm)
    ELSE tm

\* SHOW_WINNER, App.tsx:294-318: one iteration; tm = captureTimeoutsRef
CaptureHand(tm, hand, t, winners, captured) ==
    LET id == hand.stableId IN
    IF id \in winners
    THEN IF ~hand.isFist /\ id \notin captured
         THEN (IF ~Has(tm, id) THEN MapSet(tm, id, t + CAPTURE_DELAY_MS) ELSE tm)
         ELSE IF hand.isFist
         THEN (IF Has(tm, id) THEN MapDelete(tm, id) ELSE tm)
         ELSE tm
    ELSE tm

RECURSIVE CaptureFold(_, _, _, _, _, _)
CaptureFold(tm, hands, i, t, winners, captured) ==
    IF i > Len(hands) THEN tm
    ELSE CaptureFold(CaptureHand(tm, hands[i], t, winners, captured),
                     hands, i + 1, t, winners, captured)

SeqToSet(s) == {s[i] : i \in 1..Len(s)}

FistCount(hands) == Cardinality({i \in 1..Len(hands) : hands[i].isFist})

\* fault variant: the hands in view are all fists, however many they are
FistCondition_allShown(hands, pc) ==
    \A i \in 1..Len(hands) : hands[i].isFist

\* WAIT_FOR_FISTS_READY condition, App.tsx:268-273
FistCondition(hands, pc) ==
    FistCount(hands) >= pc /\ Len(hands) >= pc

\* updateTimerWithGracePeriod, App.tsx:230-252, in parts
\* fault variants: the hold restarted by every condition-true tick; success
\* at the required time already; the hold aborted at the grace window already
HoldStart_restart(holdStart, t) == t
HoldSuccess_atD(elapsed, requiredTimeMs) == elapsed >= requiredTimeMs
GraceExpired_atWindow(t, lastValid) == t - lastValid >= GRACE_PERIOD_MS

HoldStart(holdStart, t) == IF holdStart = Null THEN t ELSE holdStart   \* :237
HoldElapsed(holdStart, t) == t - HoldStart(holdStart, t)                \* :239
HoldSuccess(elapsed, requiredTimeMs) == elapsed > requiredTimeMs        \* :242
GraceExpired(t, lastValid) == t - lastValid > GRACE_PERIOD_MS           \* :247

\* the observer of the published hand lists: for every hand of the list,
\* the facing it shows and the clock reading of the first list of the
\* unbroken run of lists that showed it with this facing
Observe(prev, hands, t) ==
    [id \in SeqIds(hands) |->
        LET h == CHOOSE i \in 1..Len(hands) : hands[i].stableId = id IN
        IF Has(prev, id) /\ prev[id].facing = hands[h].facing
        THEN prev[id]
        ELSE [facing |-> hands[h].facing, since |-> t]]

CountsParticipants_inWait(gs) ==
    gs \in {"DETECT_PARTICIPANTS", "WAIT_FOR_FISTS_READY"}

\* the phases whose ticks write participantCount, App.tsx:254-265
CountsParticipants(gs) == gs = "DETECT_PARTICIPANTS"

\* onHandsUpdate(finalHands) followed by the game loop effect it schedules,
\* run at clock reading now + d
GameLoop(d, hands) ==
    LET t == now + d
        ran == ~InCooldown(t, lastStateChangeTimeRef)
        isGestureAllowed == ~isGalleryOpen /\ timer = 0
        gesture == ran /\ isGestureAllowed /\ gameState = "DETECT_PARTICIPANTS"
        G == IF gesture
             THEN GestureRun(handFacingHistory, handGestureStates, hands, t, winnerCount)
             ELSE [fh |-> handFacingHistory, gs |-> handGestureStates,
                   trig |-> {}, confirm |-> FALSE]
        called == G.confirm
        conf == ConfirmCall(participantCount, winnerCount, gameState)
        past == ran /\ ~isGalleryOpen                      \* App.tsx:228
        inWait == past /\ gameState = "WAIT_FOR_FISTS_READY"
        inShow == past /\ gameState = "SHOW_WINNER"
        cond == FistCondition(hands, participantCount)
        \* updateTimerWithGracePeriod, App.tsx:230-252
        hold1 == HoldStart(holdStartTimeRef, t)
        elapsed == HoldElapsed(holdStartTimeRef, t)
        success == inWait /\ cond /\ HoldSuccess(elapsed, FIST_HOLD_MS)
        abort == inWait /\ ~cond /\ GraceExpired(t, lastValidConditionTimeRef)
    IN
    /\ now' = t
    /\ detectedHands' = hands
    /\ seen' = Observe(seen, hands, t)
    /\ handFacingHistory' = G.fh
    /\ handGestureStates' = G.gs
    /\ participantCount' =
          IF past /\ CountsParticipants(gameState) THEN Len(hands)
          ELSE participantCount
    /\ gameState' =
          IF success THEN "SHOW_WINNER"
          ELSE IF called /\ conf.advance THEN "WAIT_FOR_FISTS_READY"
          ELSE gameState
    /\ lastStateChangeTimeRef' =
          IF success \/ (called /\ conf.advance) THEN t ELSE lastStateChangeTimeRef
    /\ warningMessage' =
          IF inWait
          THEN IF success THEN "none"
               ELSE IF ~(Len(hands) >= participantCount) THEN "allVisible"
               ELSE IF ~(FistCount(hands) >= participantCount) THEN "makeFists"
               ELSE "none"
          ELSE IF called /\ conf.warn THEN "needMore"
          ELSE warningMessage
    /\ holdStartTimeRef' =
          IF success \/ abort THEN Null
          ELSE IF inWait /\ cond THEN hold1
          ELSE holdStartTimeRef
    /\ lastValidConditionTimeRef' =
          IF success THEN 0
          ELSE IF inWait /\ cond THEN t
          ELSE lastValidConditionTimeRef
    /\ timer' =
          IF success \/ abort THEN 0
          ELSE IF inWait /\ cond THEN elapsed
          ELSE timer
    /\ \E js \in (IF success
                  THEN ShuffleChoices(PoolSize(hands, participantCount))
                  ELSE {<<>>}) :
          winningStableIds' =
              IF success THEN DrawIds(hands, participantCount, winnerCount, js)
              ELSE winningStableIds
    /\ captureTimeoutsRef' =
          IF inShow
          THEN CaptureFold(captureTimeoutsRef, hands, 1, t,
                           SeqToSet(winningStableIds), capturedWinnerIds)
          ELSE captureTimeoutsRef
    /\ last' = [op |-> "GameLoop",
                sets |-> IF success THEN <<"DRAWING", "SHOW_WINNER">>
                         ELSE IF called /\ conf.advance
                         THEN <<"WAIT_FOR_FISTS_READY">> ELSE <<>>,
                trig |-> G.trig,
                cond |-> IF ~inWait THEN "none" ELSE IF cond THEN "met" ELSE "unmet",
                prevCond |-> last.cond]
    /\ UNCHANGED <<winnerCount, isGalleryOpen, capturedWinnerIds, shouldCapture>>

\* the setTimeout callback of App.tsx:299-307, run at its due time or later
captureTimeout(id) ==
    /\ Has(captureTimeoutsRef, id)
    /\ now' = IF now < captureTimeoutsRef[id] THEN captureTimeoutsRef[id] ELSE now
    /\ capturedWinnerIds' = capturedWinnerIds \cup {id}
    /\ shouldCapture' = TRUE
    /\ captureTimeoutsRef' = MapDelete(captureTimeoutsRef, id)
    /\ last' = Obs("handler", <<>>)
    /\ UNCHANGED <<trackerVars, countVars, detectVars, seen, gameState, participantCount, winnerCount, detectedHands,
                   winningStableIds, warningMessage, timer, holdStartTimeRef,
                   lastValidConditionTimeRef, lastStateChangeTimeRef,
                   handGestureStates, handFacingHistory, isGalleryOpen>>

\* handleCaptureComplete, App.tsx:117-122
handleCaptureComplete ==
    /\ shouldCapture
    /\ shouldCapture' = FALSE
    /\ last' = Obs("handler", <<>>)
    /\ UNCHANGED <<trackerVars, countVars, detectVars, seen, now, gameState, participantCount, winnerCount, detectedHands,
                   winningStableIds, warningMessage, timer, holdStartTimeRef,
                   lastValidConditionTimeRef, lastStateChangeTimeRef,
                   handGestureStates, handFacingHistory, isGalleryOpen,
                   capturedWinnerIds, captureTimeoutsRef>>

----------------------------------------------------------------------------
(* Hand tracker, CameraLayer.tsx:1076-1211 (hands.onResults).               *)
(* Coordinates are exact multiples of 1/(100 * Unit) of the frame; the      *)
(* detections lie on one horizontal line, so that the distance of two      *)
(* points is the difference of their x.  A detection is                     *)
(* [x, label, facing, isFist]: the landmark 9 of a hand, its handedness,   *)
(* and what analyzeHand reads from its landmarks.                           *)

VelocityBits == 3           \* binary digits kept below 1/100 of the frame
Unit == 2 ^ VelocityBits

MAX_TRACKING_DISTANCE == 25 * Unit          \* CameraLayer.tsx:667
DUPLICATE_HAND_THRESHOLD == 8 * Unit        \* CameraLayer.tsx:668
FRAME_PERSISTENCE_THRESHOLD == 1            \* CameraLayer.tsx:669
MAX_MISSING_FRAMES == 60                    \* CameraLayer.tsx:670
GAME_LOGIC_UPDATE_INTERVAL_MS == 30         \* CameraLayer.tsx:677
FIRST_STABLE_ID == 1000                     \* CameraLayer.tsx:679
HANDEDNESS_PENALTY == 5 * Unit              \* CameraLayer.tsx:1126
STICKY_DISTANCE == 12 * Unit                \* CameraLayer.tsx:1133
STICKY_BONUS == 1000 * Unit                 \* CameraLayer.tsx:1134
STICKY_PENALTY == 500 * Unit                \* CameraLayer.tsx:1138

Dist(a, b) == IF a < b THEN b - a ELSE a - b

\* fault variant: every detection kept
Dedupe_none(raw) ==
    [i \in 1..Len(raw) |-> [x |-> raw[i].x, label |-> raw[i].label, index |-> i]]

\* CameraLayer.tsx:1094-1112: the detections kept, each with its index
RECURSIVE DedupeFrom(_, _, _, _)
DedupeFrom(raw, i, processed, acc) ==
    IF i > Len(raw) THEN acc
    ELSE IF i \in processed THEN DedupeFrom(raw, i + 1, processed, acc)
    ELSE LET dups == {j \in (i + 1)..Len(raw) :
                        /\ j \notin processed
                        /\ Dist(raw[i].x, raw[j].x) < DUPLICATE_HAND_THRESHOLD}
             kept == [x |-> raw[i].x, label |-> raw[i].label, index |-> i]
         IN  DedupeFrom(raw, i + 1, processed \cup {i} \cup dups, Append(acc, kept))

Dedupe(raw) == DedupeFrom(raw, 1, {}, <<>>)

\* CameraLayer.tsx:1115-1119
PredictTrack(t) == [t EXCEPT !.missingCount = @ + 1, !.x = @ + t.v]

Predict(ts) == [i \in 1..Len(ts) |-> PredictTrack(ts[i])]

\* fault variant: the cost of a winner like that of any other track
MatchCost_plain(track, input, winners) ==
    Dist(track.x, input.x)
        + (IF track.label # input.label THEN HANDEDNESS_PENALTY ELSE 0)

\* CameraLayer.tsx:1125-1140
MatchCost(track, input, winners) ==
    LET dist == Dist(track.x, input.x)
        handednessPenalty == IF track.label # input.label THEN HANDEDNESS_PENALTY ELSE 0
        cost == dist + handednessPenalty
    IN  IF track.id \in winners
        THEN IF dist < STICKY_DISTANCE THEN cost - STICKY_BONUS ELSE cost + STICKY_PENALTY
        ELSE cost

\* CameraLayer.tsx:1143
WithinTrackingDistance(track, input) == Dist(track.x, input.x) < MAX_TRACKING_DISTANCE

\* CameraLayer.tsx:1121-1147
Matches(ts, inputs, winners) ==
    {[trackIdx |-> i, inputIdx |-> j, cost |-> MatchCost(ts[i], inputs[j], winners)] :
        <<i, j>> \in {p \in (1..Len(ts)) \X (1..Len(inputs)) :
                        WithinTrackingDistance(ts[p[1]], inputs[p[2]])}}

\* CameraLayer.tsx:1148: the order of the sorted list; the sort is stable and
\* the list was filled track by track, input by input
Before(a, b) ==
    \/ a.cost < b.cost
    \/ a.cost = b.cost /\ a.trackIdx < b.trackIdx
    \/ a.cost = b.cost /\ a.trackIdx = b.trackIdx /\ a.inputIdx < b.inputIdx

\* fault variant: every candidate pair taken
Assign_all(matches, taken) == matches

\* CameraLayer.tsx:1150-1169: the pairs taken, going down the sorted list
RECURSIVE Assign(_, _)
Assign(matches, taken) ==
    LET free == {m \in matches :
                    \A a \in taken : a.trackIdx # m.trackIdx /\ a.inputIdx # m.inputIdx}
    IN  IF free = {} THEN taken
        ELSE LET m == CHOOSE x \in free : \A y \in free \ {x} : Before(x, y)
             IN  Assign(matches, taken \cup {m})

\* CameraLayer.tsx:1158-1159, one coordinate
SmoothVelocity(v, vx) == (v + vx) \div 2

\* CameraLayer.tsx:1154-1166
UpdateTrack(t, input) ==
    [t EXCEPT !.v = SmoothVelocity(t.v, input.x - t.x),
              !.x = input.x,
              !.frameCount = @ + 1,
              !.missingCount = 0,
              !.mp = input.index,
              !.label = input.label]

\* CameraLayer.tsx:1173-1182
SpawnTrack(id, input) ==
    [id |-> id, x |-> input.x, v |-> 0, frameCount |-> 1, missingCount |-> 0,
     label |-> input.label, mp |-> input.index]

\* fault variant: the counter read but not advanced between two spawns
SpawnId_same(next, k) == next

\* CameraLayer.tsx:1174: the id of the k-th track spawned in a frame, k from 0
SpawnId(next, k) == next + k

\* CameraLayer.tsx:1186
IsKept(t) == t.missingCount < MAX_MISSING_FRAMES

\* fault variant: the match of the current frame not required
IsPublished_stale(t, raw) ==
    /\ t.mp \in 1..Len(raw)
    /\ t.frameCount >= FRAME_PERSISTENCE_THRESHOLD

\* CameraLayer.tsx:1191-1192
IsPublished(t, raw) ==
    /\ t.missingCount = 0
    /\ t.mp \in 1..Len(raw)
    /\ t.frameCount >= FRAME_PERSISTENCE_THRESHOLD

\* CameraLayer.tsx:1199: stable insertion by centroid.x
RECURSIVE SortByX(_)
SortByX(hs) ==
    IF hs = <<>> THEN <<>>
    ELSE LET m == CHOOSE i \in 1..Len(hs) :
                    \A j \in 1..Len(hs) : hs[i].x < hs[j].x \/ (hs[i].x = hs[j].x /\ i <= j)
         IN  <<hs[m]>> \o SortByX([k \in 1..(Len(hs) - 1) |-> IF k < m THEN hs[k] ELSE hs[k + 1]])

\* CameraLayer.tsx:1189-1199: the hands handed to the game
FinalHands(kept, raw) ==
    LET shown == SelectSeq(kept, LAMBDA t : IsPublished(t, raw))
        hs == [i \in 1..Len(shown) |->
                 [stableId |-> shown[i].id, facing |-> raw[shown[i].mp].facing,
                  isFist |-> raw[shown[i].mp].isFist, x |-> shown[i].x]]
        sorted == SortByX(hs)
    IN  [i \in 1..Len(sorted) |->
           [stableId |-> sorted[i].stableId, facing |-> sorted[i].facing,
            isFist |-> sorted[i].isFist]]

\* CameraLayer.tsx:1202-1204
ShouldUpdate(n, t) ==
    n # lastHandCountRef \/ t - lastLogicUpdateTimeRef > GAME_LOGIC_UPDATE_INTERVAL_MS

\* the detections so far were one per frame, each less than the tracking
\* distance from the one before; id is the id the first one was published with
Trail(prev, raw, hands) ==
    IF /\ prev.ok
       /\ Len(raw) = 1
       /\ prev.x = -1 \/ Dist(raw[1].x, prev.x) < MAX_TRACKING_DISTANCE
    THEN [ok |-> TRUE, x |-> raw[1].x,
          id |-> IF prev.x = -1 /\ Len(hands) = 1 THEN hands[1].stableId ELSE prev.id]
    ELSE [ok |-> FALSE, x |-> -1, id |-> 0]

\* the handler's own game variables, which the tracker does not write
appVars == <<gameState, participantCount, winnerCount, detectedHands,
             winningStableIds, warningMessage, timer, holdStartTimeRef,
             lastValidConditionTimeRef, lastStateChangeTimeRef,
             handGestureStates, handFacingHistory, isGalleryOpen,
             capturedWinnerIds, captureTimeoutsRef, shouldCapture, seen>>

\* CameraLayer.tsx:1078-1079: the handler of a camera effect that has been
\* cleaned up returns after it has cleared isDetectingRef
onResultsUnmounted(d) ==
    /\ isDetectingRef' = FALSE
    /\ now' = now + d
    /\ last' = Obs("onResults", <<>>)
    /\ UNCHANGED <<trackerVars, countVars, appVars>>

\* A detection may carry the number of points of its landmark list in a
\* field points; one without the field has all the points of a hand.
MIDDLE_MCP == 9             \* CameraLayer.tsx:1090, the landmark read as the place
PINKY_TIP == 20             \* handLogic.ts:15, the last landmark analyzeHand reads

Points(r) == IF "points" \in DOMAIN r THEN r.points ELSE PINKY_TIP + 1

\* landmarks[k] of the detection r is a point and not undefined
HasLandmark(r, k) == k < Points(r)

\* CameraLayer.tsx:1090: reading .x of a landmark that is undefined throws
ThrowsAtInput(raw) == \E i \in 1..Len(raw) : ~HasLandmark(raw[i], MIDDLE_MCP)

\* CameraLayer.tsx:1194, handLogic.ts:24-47: analyzeHand reads the landmarks
\* 0, 5 and 17 and those of the four fingers up to 20, and throws at the
\* first that is undefined
ThrowsAtReport(kept, raw) ==
    \E i \in 1..Len(kept) :
        IsPublished(kept[i], raw) /\ ~HasLandmark(raw[kept[i].mp], PINKY_TIP)

\* CameraLayer.tsx:1078-1090: the handler left by the exception of line 1090,
\* before it has read or written the tracks
onResultsThrownAtInput(d, raw) ==
    /\ isDetectingRef' = FALSE
    /\ now' = now + d
    /\ last' = [Obs("onResults", <<>>) EXCEPT !.cond = "thrown"]
    /\ rawInputs' = raw
    /\ trail' = [ok |-> FALSE, x |-> -1, id |-> 0]
    /\ UNCHANGED <<tracks, nextStableId, detectedHandsRef, lastLogicUpdateTimeRef,
                   lastHandCountRef, countVars, appVars>>

\* CameraLayer.tsx:1078-1194: the handler left by the exception of analyzeHand,
\* after tracksRef and the id counter have been written (:1174, :1187) and
\* before detectedHandsRef is (:1200)
onResultsThrownAtReport(d, raw, keptTracks, spawnCount) ==
    /\ isDetectingRef' = FALSE
    /\ now' = now + d
    /\ last' = [Obs("onResults", <<>>) EXCEPT !.cond = "thrown"]
    /\ tracks' = keptTracks
    /\ nextStableId' = nextStableId + spawnCount
    /\ rawInputs' = raw
    /\ trail' = [ok |-> FALSE, x |-> -1, id |-> 0]
    /\ UNCHANGED <<detectedHandsRef, lastLogicUpdateTimeRef, lastHandCountRef,
                   countVars, appVars>>

\* hands.onResults, CameraLayer.tsx:1076-1211, d ms after the last event;
\* onHandsUpdate is setDetectedHands (App.tsx), after which the game loop runs
onResults(d, raw) ==
    LET t == now + d
        unique == Dedupe(raw)
        predicted == Predict(tracks)
        taken == Assign(Matches(predicted, unique, SeqToSet(winningStableIds)), {})
        updated == [i \in 1..Len(predicted) |->
                      IF \E a \in taken : a.trackIdx = i
                      THEN UpdateTrack(predicted[i],
                               unique[(CHOOSE a \in taken : a.trackIdx = i).inputIdx])
                      ELSE predicted[i]]
        fresh == SelectSeq([j \in 1..Len(unique) |-> j],
                           LAMBDA j : \A a \in taken : a.inputIdx # j)
        spawned == [k \in 1..Len(fresh) |->
                      SpawnTrack(SpawnId(nextStableId, k - 1), unique[fresh[k]])]
        keptTracks == SelectSeq(updated \o spawned, IsKept)
        finalHands == FinalHands(keptTracks, raw)
    IN
    IF generation # 1 THEN onResultsUnmounted(d) ELSE
    IF ThrowsAtInput(raw) THEN onResultsThrownAtInput(d, raw) ELSE
    IF ThrowsAtReport(keptTracks, raw)
    THEN /\ \A a \in taken :
               (predicted[a.trackIdx].v + unique[a.inputIdx].x - predicted[a.trackIdx].x) % 2 = 0
         /\ onResultsThrownAtReport(d, raw, keptTracks, Len(fresh))
    ELSE
    /\ \A a \in taken :
          (predicted[a.trackIdx].v + unique[a.inputIdx].x - predicted[a.trackIdx].x) % 2 = 0
    /\ tracks' = keptTracks
    /\ nextStableId' = nextStableId + Len(fresh)
    /\ detectedHandsRef' = finalHands
    /\ trail' = Trail(trail, raw, finalHands)
    /\ rawInputs' = raw
    /\ isDetectingRef' = FALSE                                     \* :1078
    /\ UNCHANGED countVars
    /\ IF ShouldUpdate(Len(finalHands), t)
       THEN /\ lastHandCountRef' = Len(finalHands)
            /\ lastLogicUpdateTimeRef' = t
            /\ GameLoop(d, finalHands)
       ELSE /\ now' = t
            /\ last' = Obs("onResults", <<>>)
            /\ UNCHANGED <<lastHandCountRef, lastLogicUpdateTimeRef,
                           gameState, participantCount, winnerCount, detectedHands,
                           winningStableIds, warningMessage, timer, holdStartTimeRef,
                           lastValidConditionTimeRef, lastStateChangeTimeRef,
                           handGestureStates, handFacingHistory, isGalleryOpen,
                           capturedWinnerIds, captureTimeoutsRef, shouldCapture, seen>>

----------------------------------------------------------------------------
(* The detect loop, CameraLayer.tsx:1215-1226.  Every run of the camera    *)
(* effect (CameraLayer.tsx:772-1240) starts a loop of its own; the Hands   *)
(* object and its onResults handler are made by the first run only         *)
(* (CameraLayer.tsx:1051), so that handler's isMounted is the first run's. *)
(* An inference submitted with send() is "running" until onResults has     *)
(* been called with its result or send() has rejected; after onResults     *)
(* the promise of send() resolves.                                         *)

\* fault variant: isDetectingRef not consulted
MaySubmit_unguarded(ready, detecting) == ready

\* CameraLayer.tsx:1217, handsRef.current being set
MaySubmit(ready, detecting) == ready /\ ~detecting

\* detect of run g, called by requestAnimationFrame, up to its await or,
\* when nothing is submitted, to its end; ready is video.readyState >= 2
detect(g, ready) ==
    /\ loopAt[g] = "raf"
    /\ IF g # generation                                           \* :1216
       THEN /\ loopAt' = [loopAt EXCEPT ![g] = "done"]
            /\ last' = Obs("detect", <<>>)
            /\ UNCHANGED <<isDetectingRef, inFlight>>
       ELSE IF MaySubmit(ready, isDetectingRef)
       THEN /\ isDetectingRef' = TRUE
            /\ inFlight' = [inFlight EXCEPT ![g] = "running"]
            /\ loopAt' = [loopAt EXCEPT ![g] = "await"]
            /\ last' = [Obs("detect", <<>>) EXCEPT !.cond = "submitted"]
       ELSE /\ last' = [Obs("detect", <<>>) EXCEPT !.cond = "skipped"]
            /\ UNCHANGED <<isDetectingRef, inFlight, loopAt>>
    /\ UNCHANGED <<generation, now, trackerVars, countVars, appVars>>

\* the inference of run g delivers its result d ms after the last event
deliver(g, d, raw) ==
    /\ inFlight[g] = "running"
    /\ inFlight' = [inFlight EXCEPT ![g] = "delivered"]
    /\ onResults(d, raw)
    /\ UNCHANGED <<generation, loopAt>>

\* send() resolves and detect goes on after its await, CameraLayer.tsx:1225
resolve(g) ==
    /\ inFlight[g] = "delivered"
    /\ inFlight' = [inFlight EXCEPT ![g] = "none"]
    /\ loopAt' = [loopAt EXCEPT ![g] = "raf"]
    /\ last' = Obs("send", <<>>)
    /\ UNCHANGED <<isDetectingRef, generation, now, trackerVars, countVars, appVars>>

\* send() rejects without a result, CameraLayer.tsx:1221-1225
reject(g) ==
    /\ inFlight[g] = "running"
    /\ isDetectingRef' = FALSE
    /\ inFlight' = [inFlight EXCEPT ![g] = "none"]
    /\ loopAt' = [loopAt EXCEPT ![g] = "raf"]
    /\ last' = Obs("send", <<>>)
    /\ UNCHANGED <<generation, now, trackerVars, countVars, appVars>>

\* toggleCamera, CameraLayer.tsx:757-759: the effect is cleaned up
\* (CameraLayer.tsx:1234-1239), which cancels the frame request of its
\* loop, and runs again
toggleCamera ==
    /\ generation < MaxGenerations
    /\ generation' = generation + 1
    /\ loopAt' = [g \in 1..MaxGenerations |->
                    IF g = generation + 1 THEN "raf"
                    ELSE IF loopAt[g] = "raf" THEN "done" ELSE loopAt[g]]
    /\ last' = Obs("toggleCamera", <<>>)
    /\ UNCHANGED <<isDetectingRef, inFlight, now, trackerVars, countVars, appVars>>

----------------------------------------------------------------------------
(* Specifications of the game: the state after mount, and the handlers     *)
(* invoked in any order.  The handlers are the props App passes to the     *)
(* overlay and the camera layer; none of them is guarded by the phase      *)
(* except where its own code tests it.                                     *)

InitGame ==
    /\ now = StartTime
    /\ gameState = "IDLE"
    /\ participantCount = 0
    /\ winnerCount = 1
    /\ detectedHands = <<>>
    /\ winningStableIds = <<>>
    /\ warningMessage = "none"
    /\ timer = 0
    /\ holdStartTimeRef = Null
    /\ lastValidConditionTimeRef = 0
    /\ lastStateChangeTimeRef = StartTime
    /\ handGestureStates = EmptyMap
    /\ handFacingHistory = EmptyMap
    /\ isGalleryOpen = FALSE
    /\ capturedWinnerIds = {}
    /\ captureTimeoutsRef = EmptyMap
    /\ shouldCapture = FALSE
    /\ candidateWinnerCountRef = Null
    /\ seen = EmptyMap
    /\ last = [op |-> "handler", sets |-> <<>>, trig |-> {},
               cond |-> "none", prevCond |-> "none"]

\* CameraLayer.tsx:679, 732-739
InitTracker ==
    /\ tracks = <<>>
    /\ nextStableId = FIRST_STABLE_ID
    /\ detectedHandsRef = <<>>
    /\ lastLogicUpdateTimeRef = 0
    /\ lastHandCountRef = 0
    /\ trail = [ok |-> TRUE, x |-> -1, id |-> 0]
    /\ rawInputs = <<>>
    /\ isDetectingRef = FALSE
    /\ generation = 1
    /\ loopAt = [g \in 1..MaxGenerations |-> IF g = 1 THEN "raf" ELSE "none"]
    /\ inFlight = [g \in 1..MaxGenerations |-> "none"]

Init == InitGame /\ InitTracker

\* the hand lists a tick delivers: the hands of ids, left to right, each with
\* one of the given facings and fist flags
HandLists(ids, facings, fists) ==
    LET One(id) == {<<[stableId |-> id, facing |-> f, isFist |-> z]>> :
                       f \in facings, z \in fists}
        a == 1000
        b == 1001
    IN  {<<>>}
        \cup UNION {One(id) : id \in ids}
        \cup (IF {a, b} \subseteq ids
              THEN {x \o y : x \in One(a), y \in One(b)} ELSE {})

\* The controls, as far as the sources show them.  The gallery is a modal
\* over the whole screen (App.tsx:380-427, z-40 over the overlay's z-1..z-5)
\* with a reset and a close button; under it no other control can be
\* pressed.  The overlay shows the gallery button in SHOW_WINNER only
\* (GameOverlay.tsx:138-150) and the reset button always
\* (GameOverlay.tsx:64-69).  No source shows the controls of
\* onStartDetection and onUpdateWinnerCount, and neither handler tests the
\* phase, so they are invoked in any phase; so is the confirm handler,
\* which tests the phase itself.  All are invoked while the clock is within
\* `until` of the mount.
Controls(until) ==
    \/ /\ now <= StartTime + until
       /\ handleStreamReady
    \/ /\ now <= StartTime + until
       /\ handleReset
    \/ /\ now <= StartTime + until
       /\ ~isGalleryOpen
       /\ handleStartDetection
    \/ /\ now <= StartTime + until
       /\ ~isGalleryOpen
       /\ handleConfirmParticipants
    \/ /\ now <= StartTime + until
       /\ ~isGalleryOpen
       /\ \E delta \in {-1, 1} : updateWinnerCount(delta)

GalleryControls ==
    \/ /\ gameState = "SHOW_WINNER"
       /\ setIsGalleryOpen(TRUE)
    \/ setIsGalleryOpen(FALSE)

TimerAction ==
    \/ \E id \in DOMAIN captureTimeoutsRef : captureTimeout(id)
    \/ handleCaptureComplete
    \/ GalleryControls

\* a tick: the tracker publishes hands and the game loop runs d ms later
Tick(deltas, lists, horizon) ==
    \E d \in deltas :
    \E hands \in lists :
        /\ now + d <= StartTime + horizon
        /\ GameLoop(d, hands)
        /\ UNCHANGED <<trackerVars, countVars, detectVars>>

\* --- hold timer and phases: two hands that open and close together or
\* are both out of view
HoldHorizon == 5500
HoldPresses == 1000
HoldDeltas == {500, 1000}
HoldLists == {h \in HandLists({1000, 1001}, {"Back"}, BOOLEAN) : Len(h) # 1}
HoldTick == Tick(HoldDeltas, HoldLists, HoldHorizon)

NextHold == Controls(HoldPresses) \/ TimerAction \/ HoldTick
SpecHold == Init /\ [][NextHold]_vars

\* --- a whole round and what follows it: the same hands, ticks 1100 ms
\* apart, the controls pressed at any time
RoundHorizon == 7700
RoundDeltas == {1100}
RoundTick == Tick(RoundDeltas, HoldLists, RoundHorizon)

NextRound == Controls(RoundHorizon) \/ TimerAction \/ RoundTick
SpecRound == Init /\ [][NextRound]_vars

\* --- cooldown: ticks 100 ms apart in the window that follows a phase
\* change and up to its end, ticks one second apart at any time, through a
\* whole round
CooldownHorizon == 5900
CooldownPresses == 400
CooldownDeltas == {1000}
WindowDeltas == {100}
CooldownTick ==
    \/ /\ now - lastStateChangeTimeRef < COOLDOWN_MS
       /\ Tick(WindowDeltas, HoldLists, CooldownHorizon)
    \/ Tick(CooldownDeltas, HoldLists, CooldownHorizon)

NextCooldown == Controls(CooldownPresses) \/ TimerAction \/ CooldownTick
SpecCooldown == Init /\ [][NextCooldown]_vars

\* --- debounce: one hand that turns, ticks closer than the stability window
DebounceHorizon == 900
DebouncePresses == 450
DebounceDeltas == {50, 100}
TurnLists == HandLists({1000}, {"Palm", "Back"}, {FALSE})
DebounceTick == Tick(DebounceDeltas, TurnLists, DebounceHorizon)

NextDebounce == Controls(DebouncePresses) \/ DebounceTick
SpecDebounce == Init /\ [][NextDebounce]_vars

\* --- gesture timeout: one hand that turns, ticks one stability window
\* apart or one long pause apart (150 + 1850 is exactly the step timeout)
TimeoutHorizon == 3300
TimeoutPresses == 450
TimeoutDeltas == {150, 1850}
TimeoutTick == Tick(TimeoutDeltas, TurnLists, TimeoutHorizon)

NextTimeout == Controls(TimeoutPresses) \/ TimeoutTick
SpecTimeout == Init /\ [][NextTimeout]_vars

\* --- the whole sequence: two hands that turn, ticks one window apart
SequenceHorizon == 1500
SequencePresses == 150
SequenceDeltas == {150}
SequenceLists == HandLists({1000, 1001}, {"Palm", "Back"}, {FALSE})
SequenceTick == Tick(SequenceDeltas, SequenceLists, SequenceHorizon)

NextSequence == Controls(SequencePresses) \/ SequenceTick
SpecSequence == Init /\ [][NextSequence]_vars

\* --- the tracker alone: the game stays in IDLE and no hand wins
\* the frames of at most two detections at the places xs (1/100 of the frame)
Detections(xs) ==
    LET One == {<<[x |-> x * Unit, label |-> "Right", facing |-> "Palm", isFist |-> FALSE]>> :
                   x \in xs}
    IN  {<<>>} \cup One \cup {a \o b : a \in One, b \in One}

\* the same with the detections of a frame from left to right
OrderedDetections(xs) ==
    {r \in Detections(xs) : Len(r) < 2 \/ r[1].x <= r[2].x}

Frame(deltas, raws, horizon) ==
    \E d \in deltas :
    \E raw \in raws :
        /\ now + d <= StartTime + horizon
        /\ onResults(d, raw)
        /\ UNCHANGED loopVars

\* a hand that moves between three places 0.24 of the frame apart
MoveHorizon == 80
MoveDeltas == {20, 40}
MovePlaces == {26, 50, 74}
NextMove == Frame(MoveDeltas, OrderedDetections(MovePlaces), MoveHorizon)
SpecMove == Init /\ [][NextMove]_vars

\* two hands that stay where they are and go out of view together, until
\* their tracks expire
AgingHorizon == 2520
AgingDeltas == {40}
AgingPlaces == {30, 70}
AgingFrames == {r \in Detections(AgingPlaces) : Len(r) = 0 \/ (Len(r) = 2 /\ r[1].x < r[2].x)}
NextAging == Frame(AgingDeltas, AgingFrames, AgingHorizon)
SpecAging == Init /\ [][NextAging]_vars

\* --- one hand whose reported handedness changes between frames, at two
\* places 0.22 of the frame apart
LabelHorizon == 160
LabelDeltas == {40}
LabelPlaces == {30, 52}
LabelFrames ==
    {<<>>} \cup {<<[x |-> x * Unit, label |-> l, facing |-> "Palm", isFist |-> FALSE]>> :
                    x \in LabelPlaces, l \in {"Left", "Right"}}
NextLabel == Frame(LabelDeltas, LabelFrames, LabelHorizon)
SpecLabel == Init /\ [][NextLabel]_vars

\* --- up to three detections in a frame, in any order, at places 0.05 and
\* 0.06 apart: the outer two are 0.11 apart
DupHorizon == 120
DupDeltas == {40}
DupPlaces == {30, 35, 41}
DupFrames ==
    LET At(x) == [x |-> x * Unit, label |-> "Right", facing |-> "Palm", isFist |-> FALSE]
        Lists == UNION {[1..n -> DupPlaces] : n \in 0..3}
    IN  {[i \in DOMAIN f |-> At(f[i])] : f \in {g \in Lists : \A i, j \in DOMAIN g : g[i] = g[j] => i = j}}
NextDup == Frame(DupDeltas, DupFrames, DupHorizon)
SpecDup == Init /\ [][NextDup]_vars

\* --- hands at two places whose pose changes from frame to frame and that
\* go out of view one at a time
PoseHorizon == 120
PoseDeltas == {40}
PosePlaces == {30, 70}
PoseFrames ==
    LET One == {<<[x |-> x * Unit, label |-> "Right", facing |-> f, isFist |-> z]>> :
                   x \in PosePlaces, f \in {"Palm", "Back"}, z \in BOOLEAN}
    IN  {<<>>} \cup One \cup {a \o b : a \in {o \in One : o[1].x = 30 * Unit},
                                        b \in {o \in One : o[1].x = 70 * Unit}}
NextPose == Frame(PoseDeltas, PoseFrames, PoseHorizon)
SpecPose == Init /\ [][NextPose]_vars

\* --- the detect loops of up to MaxGenerations runs of the camera effect,
\* inferences that deliver no hand or one hand, or fail
DetectHorizon == 120
DetectDeltas == {40}
DetectFrames == OrderedDetections({30})
NextDetect ==
    \/ \E g \in 1..MaxGenerations : \E ready \in BOOLEAN : detect(g, ready)
    \/ \E g \in 1..MaxGenerations : \E d \in DetectDeltas : \E raw \in DetectFrames :
          /\ now + d <= StartTime + DetectHorizon
          /\ deliver(g, d, raw)
    \/ \E g \in 1..MaxGenerations : resolve(g)
    \/ \E g \in 1..MaxGenerations : reject(g)
    \/ toggleCamera
SpecDetect == Init /\ [][NextDetect]_vars

\* --- tracker and game together: hands at two places, tracked frame by
\* frame, while the round is started from the controls
LiveHorizon == 750
LivePresses == 150
LiveDeltas == {150}
LivePlaces == {30, 70}
NextLive == Controls(LivePresses) \/ Frame(LiveDeltas, OrderedDetections(LivePlaces), LiveHorizon)
SpecLive == Init /\ [][NextLive]_vars

\* --- the draw as a function of its inputs: every list of up to MaxPool
\* hands with different ids, every participantCount and winnerCount up to
\* MaxPool, in the phase changeState(DRAWING) has just set
MaxPool == 3
DrawHands ==
    LET ids == FIRST_STABLE_ID..(FIRST_STABLE_ID + MaxPool - 1)
        orders == UNION {[1..n -> ids] : n \in 0..MaxPool}
    IN  {[i \in DOMAIN o |-> [stableId |-> o[i], facing |-> "Back", isFist |-> TRUE]] :
            o \in {q \in orders : \A i, j \in DOMAIN q : i # j => q[i] # q[j]}}

InitDraw ==
    /\ now = StartTime
    /\ gameState = "DRAWING"
    /\ participantCount \in 0..MaxPool
    /\ winnerCount \in 1..MaxPool
    /\ detectedHands \in DrawHands
    /\ winningStableIds = <<>>
    /\ warningMessage = "none"
    /\ timer = 0
    /\ holdStartTimeRef = Null
    /\ lastValidConditionTimeRef = 0
    /\ lastStateChangeTimeRef = StartTime
    /\ handGestureStates = EmptyMap
    /\ handFacingHistory = EmptyMap
    /\ isGalleryOpen = FALSE
    /\ capturedWinnerIds = {}
    /\ captureTimeoutsRef = EmptyMap
    /\ shouldCapture = FALSE
    /\ candidateWinnerCountRef = Null
    /\ seen = EmptyMap
    /\ last = Obs("handler", <<"DRAWING">>)
    /\ InitTracker

NextDraw == performDraw
SpecDraw == InitDraw /\ [][NextDraw]_vars

\* --- the winner announcement: the round of two confirmed hands right after
\* the draw took one of them, ticks a quarter of a second apart, the capture
\* timers and the controls in any order
CaptureHorizon == 1500
CapturePresses == 750
CaptureDeltas == {250}
CaptureTick == Tick(CaptureDeltas, HoldLists, CaptureHorizon)

InitCapture ==
    /\ now = StartTime
    /\ gameState = "SHOW_WINNER"
    /\ participantCount = 2
    /\ winnerCount = 1
    /\ detectedHands \in {h \in HoldLists : FistCondition(h, 2)}
    /\ winningStableIds \in {<<FIRST_STABLE_ID>>, <<FIRST_STABLE_ID + 1>>}
    /\ warningMessage = "none"
    /\ timer = 0
    /\ holdStartTimeRef = Null
    /\ lastValidConditionTimeRef = 0
    /\ lastStateChangeTimeRef = StartTime
    /\ handGestureStates = EmptyMap
    /\ handFacingHistory = EmptyMap
    /\ isGalleryOpen = FALSE
    /\ capturedWinnerIds = {}
    /\ captureTimeoutsRef = EmptyMap
    /\ shouldCapture = FALSE
    /\ candidateWinnerCountRef = Null
    /\ seen = Observe(EmptyMap, detectedHands, StartTime)
    /\ last = Obs("handler", <<"SHOW_WINNER">>)
    /\ InitTracker

NextCapture == Controls(CapturePresses) \/ TimerAction \/ CaptureTick
SpecCapture == InitCapture /\ [][NextCapture]_vars

----------------------------------------------------------------------------
(* The SET_WINNER_COUNT phase of the App of App.tsx:483-917, whose game    *)
(* loop (App.tsx:598-790) waits 1000 ms after a phase change, allows a     *)
(* grace of 500 ms and reads the winner count from the fingers held up.    *)

\* App.tsx:711
RECURSIVE TotalFingers(_)
TotalFingers(hands) ==
    IF hands = <<>> THEN 0 ELSE Head(hands).fingerCount + TotalFingers(Tail(hands))

\* App.tsx:712-713
IsValidCount(totalFingers, pc) ==
    LET maxAllowed == IF pc - 1 > 1 THEN pc - 1 ELSE 1
    IN  totalFingers >= 1 /\ totalFingers <= maxAllowed

\* the game loop of App.tsx:598-790 run in SET_WINNER_COUNT on a new hand
\* list, d ms after the last event
SetWinnerCountLoop(d, hands) ==
    LET t == now + d
        ran == ~(t - lastStateChangeTimeRef < COUNT_COOLDOWN_MS)        \* :603
        past == ran /\ ~isGalleryOpen                                   \* :643
        totalFingers == TotalFingers(hands)
        isValidCount == IsValidCount(totalFingers, participantCount)
        isCountStable == isValidCount /\ candidateWinnerCountRef = totalFingers
        restart == past /\ isValidCount /\ candidateWinnerCountRef # totalFingers
        timed == past /\ ~restart
        elapsed == HoldElapsed(holdStartTimeRef, t)
        success == timed /\ isCountStable /\ HoldSuccess(elapsed, COUNT_HOLD_MS)
        abort == timed /\ ~isCountStable /\ t - lastValidConditionTimeRef > COUNT_GRACE_MS
    IN
    /\ gameState = "SET_WINNER_COUNT"
    /\ now' = t
    /\ detectedHands' = hands
    /\ warningMessage' =
          IF ~past THEN warningMessage
          ELSE IF success THEN "none"
          ELSE IF totalFingers = 0 THEN "atLeastOne"
          ELSE IF totalFingers >= participantCount THEN "fewerThanParticipants"
          ELSE "none"
    /\ candidateWinnerCountRef' =
          IF success THEN Null ELSE IF restart THEN totalFingers
          ELSE candidateWinnerCountRef
    /\ holdStartTimeRef' =
          IF success THEN Null
          ELSE IF restart THEN t
          ELSE IF timed /\ isCountStable THEN HoldStart(holdStartTimeRef, t)
          ELSE IF abort THEN Null
          ELSE holdStartTimeRef
    /\ lastValidConditionTimeRef' =
          IF success THEN 0
          ELSE IF restart \/ (timed /\ isCountStable) THEN t
          ELSE lastValidConditionTimeRef
    /\ timer' =
          IF success \/ restart \/ abort THEN 0
          ELSE IF timed /\ isCountStable THEN elapsed
          ELSE timer
    /\ winnerCount' = IF restart \/ success THEN totalFingers ELSE winnerCount
    /\ gameState' = IF success THEN "WAIT_FOR_FISTS_PRE_DRAW" ELSE gameState
    /\ lastStateChangeTimeRef' = IF success THEN t ELSE lastStateChangeTimeRef
    /\ last' = [op |-> "GameLoop",
                sets |-> IF success THEN <<"WAIT_FOR_FISTS_PRE_DRAW">> ELSE <<>>,
                trig |-> {},
                cond |-> IF ~past THEN "none" ELSE IF restart THEN "restart"
                         ELSE IF isCountStable THEN "met" ELSE "unmet",
                prevCond |-> last.cond]
    /\ UNCHANGED <<trackerVars, detectVars, seen, participantCount, winningStableIds,
                   handGestureStates, handFacingHistory, isGalleryOpen,
                   capturedWinnerIds, captureTimeoutsRef, shouldCapture>>

\* --- SET_WINNER_COUNT right after it was entered from
\* WAIT_FOR_FISTS_READY, with two or three participants; one or two hands
\* in view, each holding up to two fingers, ticks half a second apart
CountHorizon == 5000
MaxFingers == 2
CountDeltas == {500}
FingerLists ==
    LET Hand(id, n) == [stableId |-> id, facing |-> "Back", isFist |-> n = 0, fingerCount |-> n]
    IN  {<<Hand(FIRST_STABLE_ID, a)>> : a \in 0..MaxFingers}
           \cup {<<Hand(FIRST_STABLE_ID, a), Hand(FIRST_STABLE_ID + 1, b)>> :
                    a \in 0..MaxFingers, b \in 0..MaxFingers}

InitCount ==
    /\ now = StartTime
    /\ gameState = "SET_WINNER_COUNT"
    /\ participantCount \in {2, 3}
    /\ winnerCount = 1
    /\ detectedHands = <<>>
    /\ winningStableIds = <<>>
    /\ warningMessage = "none"
    /\ timer = 0
    /\ holdStartTimeRef = Null
    /\ lastValidConditionTimeRef = 0
    /\ lastStateChangeTimeRef = StartTime
    /\ handGestureStates = EmptyMap
    /\ handFacingHistory = EmptyMap
    /\ isGalleryOpen = FALSE
    /\ capturedWinnerIds = {}
    /\ captureTimeoutsRef = EmptyMap
    /\ shouldCapture = FALSE
    /\ candidateWinnerCountRef = Null
    /\ seen = EmptyMap
    /\ last = Obs("handler", <<"SET_WINNER_COUNT">>)
    /\ InitTracker

NextCount ==
    \E d \in CountDeltas : \E hands \in FingerLists :
        /\ now + d <= StartTime + CountHorizon
        /\ SetWinnerCountLoop(d, hands)
SpecCount == InitCount /\ [][NextCount]_vars

----------------------------------------------------------------------------
(* Properties *)

IsTick == last'.op = "GameLoop"

\* the successor relation of the phases
PhaseSucc(a, b) == PhaseOrd(b) = PhaseOrd(a) + 1

RECURSIVE ChainOk(_, _)
ChainOk(from, sets) ==
    IF sets = <<>> THEN TRUE
    ELSE /\ Head(sets) = from \/ PhaseSucc(from, Head(sets))
         /\ ChainOk(Head(sets), Tail(sets))

\* C2: every phase change made by an operation other than reset goes to
\* the immediate successor of the phase it leaves, whatever the phase the
\* operation is invoked in.
C2_PhaseOrder ==
    [][last'.op # "handleReset" => ChainOk(gameState, last'.sets)]_vars

\* the hold of WAIT_FOR_FISTS_READY is evaluated in this tick
WaitEvaluated ==
    /\ gameState = "WAIT_FOR_FISTS_READY"
    /\ ~isGalleryOpen
    /\ now' - lastStateChangeTimeRef >= COOLDOWN_MS

\* every participant is in view and shows a fist
AllFists(hands, pc) ==
    /\ Len(hands) >= pc
    /\ Cardinality({i \in 1..Len(hands) : hands[i].isFist}) >= pc

Fired == last'.sets = <<"DRAWING", "SHOW_WINNER">>

\* C4: in a tick, the hold succeeds exactly if the condition is true and
\* now - holdStart is more than the 3000 ms required (never at or before
\* it); the success clears the hold state and leaves the phase, so the
\* same hold cannot succeed again.
C4_HoldSuccess ==
    [][IsTick =>
        /\ Fired <=> /\ WaitEvaluated
                     /\ AllFists(detectedHands', participantCount)
                     /\ holdStartTimeRef # Null
                     /\ now' - holdStartTimeRef > FIST_HOLD_MS
        /\ Fired => /\ holdStartTimeRef' = Null
                    /\ timer' = 0
                    /\ gameState' = "SHOW_WINNER"]_vars

C4_Witness ==
    /\ last.op = "GameLoop"
    /\ last.sets = <<"DRAWING", "SHOW_WINNER">>
    /\ gameState = "SHOW_WINNER"
    /\ holdStartTimeRef = Null
    /\ winningStableIds # <<>>

\* C5: while a hold is running, a condition-false tick no more than the
\* grace window after the last condition-true tick keeps holdStart and
\* the elapsed time; a condition-true tick keeps holdStart and records
\* itself as the last condition-true tick; the hold is cleared by a tick
\* only on success or on a condition-false tick more than the grace window
\* after the last condition-true tick, which reports elapsed 0.
C5_Grace ==
    [][IsTick /\ WaitEvaluated /\ holdStartTimeRef # Null =>
        LET c == AllFists(detectedHands', participantCount)
            late == now' - lastValidConditionTimeRef > GRACE_PERIOD_MS
        IN
        /\ ~c /\ ~late => /\ holdStartTimeRef' = holdStartTimeRef
                          /\ timer' = timer
                          /\ lastValidConditionTimeRef' = lastValidConditionTimeRef
        /\ c /\ ~Fired => /\ holdStartTimeRef' = holdStartTimeRef
                          /\ timer' = now' - holdStartTimeRef
                          /\ lastValidConditionTimeRef' = now'
        /\ holdStartTimeRef' = Null => Fired \/ (~c /\ late /\ timer' = 0)]_vars

\* the condition was false in the tick before, inside the grace window, and
\* is true again: the hold that was running goes on
C5_Witness ==
    /\ gameState = "WAIT_FOR_FISTS_READY"
    /\ last.op = "GameLoop" /\ last.cond = "met" /\ last.prevCond = "unmet"
    /\ holdStartTimeRef # Null
    /\ timer = now - holdStartTimeRef
    /\ timer > 0

\* C6 as stated: on a condition-true tick the elapsed time has grown, from
\* the value it was frozen at, by no more than the time since the tick
\* before, so that time with the condition false is not counted.
C6_FalseTimeNotCounted ==
    [][IsTick /\ WaitEvaluated /\ holdStartTimeRef # Null
         /\ AllFists(detectedHands', participantCount)
       => (now' - holdStartTimeRef) - timer <= now' - now]_vars

\* C6 amended: the elapsed time changes only on condition-true ticks and on
\* aborts; on a condition-false tick inside the grace window it is frozen;
\* on a condition-true tick it becomes now - holdStart, that is, it grows
\* by all the time since the last condition-true tick, the time with the
\* condition false included.
C6_ElapsedIsWallClock ==
    [][IsTick /\ WaitEvaluated =>
        LET c == AllFists(detectedHands', participantCount)
            late == now' - lastValidConditionTimeRef > GRACE_PERIOD_MS
        IN
        /\ ~c => timer' = (IF late THEN 0 ELSE timer)
        /\ c /\ ~Fired /\ holdStartTimeRef # Null
             => timer' = timer + (now' - lastValidConditionTimeRef)
        /\ c /\ holdStartTimeRef = Null => timer' = 0]_vars

\* a condition-true tick after a condition-false one: the elapsed time is
\* more than the time of the condition-true ticks alone
C6_Witness ==
    /\ gameState = "WAIT_FOR_FISTS_READY"
    /\ last.op = "GameLoop" /\ last.cond = "met" /\ last.prevCond = "unmet"
    /\ holdStartTimeRef # Null
    /\ timer = now - holdStartTimeRef
    /\ timer >= GRACE_PERIOD_MS

TrackIds(ts) == {ts[i].id : i \in 1..Len(ts)}

\* C1: the ids of the track list are pairwise different and were all
\* allocated already; a frame gives every track it spawns an id that is at
\* least the counter before the frame, so greater than every id allocated
\* before, and below the counter after it; the counter never goes back, so
\* the id of a removed track is not given out again.
C1_UniqueIds ==
    [][/\ \A i, j \in 1..Len(tracks') : i < j => tracks'[i].id < tracks'[j].id
       /\ \A id \in TrackIds(tracks) : id < nextStableId
       /\ \A id \in TrackIds(tracks') \ TrackIds(tracks) :
             nextStableId <= id /\ id < nextStableId'
       /\ nextStableId <= nextStableId']_vars

\* both tracks of the first two hands have expired and the hands, back in
\* view, have tracks with new ids
C1_Witness ==
    /\ Len(tracks) = 2
    /\ tracks[1].id = FIRST_STABLE_ID + 2
    /\ tracks[2].id = FIRST_STABLE_ID + 3
    /\ nextStableId = FIRST_STABLE_ID + 4

\* C3: as long as every frame has delivered exactly one detection, less
\* than the tracking distance from the one of the frame before, there is
\* one track, it is matched, and the hand is published with the id it was
\* first published with.
C3_SinglePointKeepsId ==
    trail.ok /\ trail.x # -1 =>
        /\ Len(tracks) = 1
        /\ tracks[1].missingCount = 0
        /\ tracks[1].id = trail.id
        /\ Len(detectedHandsRef) = 1
        /\ detectedHandsRef[1].stableId = trail.id

\* the gesture logic is evaluated in this tick
GestureEvaluated ==
    /\ gameState = "DETECT_PARTICIPANTS"
    /\ ~isGalleryOpen
    /\ timer = 0
    /\ now' - lastStateChangeTimeRef >= COOLDOWN_MS

\* the facing the transition out of step k requires
Required(k) == IF k \in {0, 2} THEN "Palm" ELSE "Back"

StepOf(gs, id) == IF id \in DOMAIN gs THEN gs[id].step ELSE 0

\* the hand's facing is the one recorded for it, for the stability window
Accepted(h) ==
    /\ h.stableId \in DOMAIN handFacingHistory
    /\ handFacingHistory[h.stableId].facing = h.facing
    /\ now' - handFacingHistory[h.stableId].since >= STABILITY_THRESHOLD

\* the step of the hand is 0 or was reached no longer ago than the timeout
InTime(id) ==
    \/ StepOf(handGestureStates, id) = 0
    \/ now' - handGestureStates[id].lastTime <= GESTURE_TIMEOUT_MS

\* C7: a hand emits the trigger in a tick exactly if the gesture logic is
\* evaluated, the hand is at step 3 in time and its accepted facing is
\* Back; the hand is then at step 0, so a hand that has just emitted it
\* does not emit it in the next tick; an accepted facing that is the
\* required one, in time, moves the hand one step on; this holds for every
\* hand of the tick, so several hands can emit the trigger in one tick.
C7_SequenceTrigger ==
    [][IsTick =>
        /\ last'.trig \subseteq SeqIds(detectedHands')
        /\ \A i \in 1..Len(detectedHands') :
             LET h == detectedHands'[i]
                 id == h.stableId
                 k == StepOf(handGestureStates, id)
                 input == GestureEvaluated /\ Accepted(h) /\ InTime(id)
             IN  /\ id \in last'.trig <=> input /\ k = 3 /\ h.facing = "Back"
                 /\ id \in last'.trig => StepOf(handGestureStates', id) = 0
                 /\ id \in last.trig => id \notin last'.trig
                 /\ input /\ h.facing = Required(k)
                       => StepOf(handGestureStates', id) = (k + 1) % 4]_vars

\* two hands completed the sequence in the same tick, and the phase moved on
C7_Witness ==
    /\ last.op = "GameLoop"
    /\ last.trig = {1000, 1001}
    /\ last.sets = <<"WAIT_FOR_FISTS_READY">>
    /\ gameState = "WAIT_FOR_FISTS_READY"

\* C8 as stated: an accepted facing that is not the required one puts a
\* hand at step 1, 2 or 3 back to step 0.
C8_OutOfOrderResets ==
    [][IsTick =>
        \A i \in 1..Len(detectedHands') :
            LET h == detectedHands'[i]
                id == h.stableId
                k == StepOf(handGestureStates, id)
            IN  GestureEvaluated /\ Accepted(h) /\ k \in 1..3 /\ h.facing # Required(k)
                    => StepOf(handGestureStates', id) = 0]_vars

\* C8 amended: an accepted facing that is not the required one leaves a hand
\* at step 1, 2 or 3 as it is, step and time of the last transition, as
\* long as the step timeout has not expired.
C8_OutOfOrderKeeps ==
    [][IsTick =>
        \A i \in 1..Len(detectedHands') :
            LET h == detectedHands'[i]
                id == h.stableId
                k == StepOf(handGestureStates, id)
                input == GestureEvaluated /\ Accepted(h) /\ InTime(id)
            IN  input /\ k \in 1..3 /\ h.facing # Required(k)
                    => /\ id \in DOMAIN handGestureStates'
                       /\ handGestureStates'[id] = handGestureStates[id]]_vars

\* the last tick evaluated hand 1000 at step 1, 2 or 3, in time, with an
\* accepted facing that is not the required one
C8_Witness ==
    /\ last.op = "GameLoop"
    /\ gameState = "DETECT_PARTICIPANTS"
    /\ now - lastStateChangeTimeRef >= COOLDOWN_MS
    /\ SeqIds(detectedHands) = {1000}
    /\ 1000 \in DOMAIN handGestureStates
    /\ handGestureStates[1000].step = 2
    /\ handGestureStates[1000].lastTime < now
    /\ now - handGestureStates[1000].lastTime <= GESTURE_TIMEOUT_MS
    /\ handFacingHistory[1000].facing = "Back"
    /\ now - handFacingHistory[1000].since >= STABILITY_THRESHOLD

\* the stored gesture state of the hand changed in this tick, or the hand
\* emitted the trigger
GestureMoved(id) ==
    \/ id \in last'.trig
    \/ id \in DOMAIN handGestureStates' /\ id \notin DOMAIN handGestureStates
    \/ /\ id \in DOMAIN handGestureStates' /\ id \in DOMAIN handGestureStates
       /\ handGestureStates'[id] # handGestureStates[id]

\* C9: when a tick moves the gesture state of a hand, the facing of the hand
\* has been the same in every hand list published for at least 150 ms.
C9_Debounce ==
    [][IsTick =>
        \A i \in 1..Len(detectedHands') :
            LET h == detectedHands'[i]
                id == h.stableId
            IN  GestureMoved(id) =>
                    /\ seen'[id].facing = h.facing
                    /\ now' - seen'[id].since >= STABILITY_THRESHOLD]_vars

\* C10: a tick that evaluates an accepted facing for a hand whose non-zero
\* step is older than 2000 ms treats the hand as at step 0: no trigger, and
\* the hand is at step 1 afterwards if the facing is Palm and keeps its
\* expired entry if it is Back; so a hand goes from step k >= 1 to k + 1, or
\* emits the trigger, only within 2000 ms of its last transition.
C10_GestureTimeout ==
    [][IsTick =>
        \A i \in 1..Len(detectedHands') :
            LET h == detectedHands'[i]
                id == h.stableId
                k == StepOf(handGestureStates, id)
                k2 == StepOf(handGestureStates', id)
            IN  /\ GestureEvaluated /\ Accepted(h) /\ ~InTime(id)
                    => /\ id \notin last'.trig
                       /\ h.facing = "Palm"
                            => handGestureStates'[id] = [step |-> 1, lastTime |-> now']
                       /\ h.facing = "Back"
                            => handGestureStates'[id] = handGestureStates[id]
                /\ (k >= 1 /\ k2 = k + 1) \/ id \in last'.trig
                    => now' - handGestureStates[id].lastTime <= GESTURE_TIMEOUT_MS]_vars

\* the last tick evaluated hand 1000 at step 3, more than 2000 ms old, with
\* the accepted facing Back, and no trigger was emitted
C10_Witness ==
    /\ last.op = "GameLoop"
    /\ last.trig = {}
    /\ gameState = "DETECT_PARTICIPANTS"
    /\ now - lastStateChangeTimeRef >= COOLDOWN_MS
    /\ SeqIds(detectedHands) = {1000}
    /\ 1000 \in DOMAIN handGestureStates
    /\ handGestureStates[1000].step = 3
    /\ now - handGestureStates[1000].lastTime > GESTURE_TIMEOUT_MS
    /\ handFacingHistory[1000].facing = "Back"
    /\ now - handFacingHistory[1000].since >= STABILITY_THRESHOLD

\* C11 as stated: when a hand completes the gesture while the hands in view
\* are not more than the winners to draw, the phase stays and the advisory
\* message is shown.
C11_GestureAdvisory ==
    [][IsTick /\ last'.trig # {} /\ Len(detectedHands') <= winnerCount
          => gameState' = "DETECT_PARTICIPANTS" /\ warningMessage' = "needMore"]_vars

\* C11 amended: the phase goes from DETECT_PARTICIPANTS to
\* WAIT_FOR_FISTS_READY only with participantCount above winnerCount, before
\* and after the step; a call of handleConfirmParticipants with
\* participantCount not above winnerCount leaves the phase and shows the
\* message; a completed gesture calls it only if the hands in view are more
\* than winnerCount, and otherwise changes neither phase nor message.
C11_ConfirmGate ==
    [][/\ gameState' = "WAIT_FOR_FISTS_READY" /\ gameState # "WAIT_FOR_FISTS_READY"
            => /\ gameState = "DETECT_PARTICIPANTS"
               /\ participantCount > winnerCount
               /\ participantCount' > winnerCount'
       /\ handleConfirmParticipants /\ participantCount <= winnerCount
            => gameState' = gameState /\ warningMessage' = "needMore"
       /\ IsTick /\ last'.trig # {}
            => IF Len(detectedHands') <= winnerCount
               THEN gameState' = gameState /\ warningMessage' = warningMessage
               ELSE IF participantCount <= winnerCount
               THEN gameState' = gameState /\ warningMessage' = "needMore"
               ELSE gameState' = "WAIT_FOR_FISTS_READY"]_vars

\* a hand has completed the gesture with too few hands in view: the phase
\* has stayed and no message is shown
C11_Witness ==
    /\ last.op = "GameLoop"
    /\ last.trig # {}
    /\ Len(detectedHands) <= winnerCount
    /\ gameState = "DETECT_PARTICIPANTS"
    /\ warningMessage = "none"

\* C12: a tick deletes the gesture state of a track (facing history and
\* step) exactly if the tracker has expired the track in it: the state of a
\* track that is still in the tracker's list is kept, and no state is left
\* for an id that is not in the list.
C12_GestureStateLifetime ==
    [][IsTick =>
        /\ \A id \in DOMAIN handFacingHistory :
              id \in TrackIds(tracks') => id \in DOMAIN handFacingHistory'
        /\ \A id \in DOMAIN handGestureStates :
              id \in TrackIds(tracks') => id \in DOMAIN handGestureStates'
        /\ DOMAIN handFacingHistory' \subseteq TrackIds(tracks')
        /\ DOMAIN handGestureStates' \subseteq TrackIds(tracks')]_vars

Distinct(s) == \A i, j \in 1..Len(s) : i # j => s[i] # s[j]

\* the pool of the draw and the number it selects
DrawPool == IF Len(detectedHands) > 0 THEN Len(detectedHands) ELSE participantCount
DrawCount == IF winnerCount < DrawPool THEN winnerCount ELSE DrawPool

C14_WinnersFrozen ==
    [][/\ gameState' \notin {"DRAWING", "SHOW_WINNER"} => winningStableIds' = <<>>
       /\ winningStableIds' # winningStableIds
            => \/ last'.op = "handleReset"
               \/ /\ last'.sets = <<"DRAWING", "SHOW_WINNER">>
                  /\ winningStableIds = <<>>]_vars


\* C15: participantCount is changed only by reset, which sets it to 0, and
\* by ticks processed in DETECT_PARTICIPANTS; in WAIT_FOR_FISTS_READY and
\* the later phases every step but reset leaves it alone.
C15_CountOnlyInDetect ==
    [][/\ last'.op = "handleReset" => participantCount' = 0
       /\ participantCount' # participantCount
            => \/ last'.op = "handleReset"
               \/ IsTick /\ gameState = "DETECT_PARTICIPANTS"]_vars

\* a tick past the cooldown of WAIT_FOR_FISTS_READY saw fewer hands than
\* were confirmed and the count stayed
C15_Witness ==
    /\ gameState = "WAIT_FOR_FISTS_READY"
    /\ last.op = "GameLoop"
    /\ ~InCooldown(now, lastStateChangeTimeRef)
    /\ participantCount = 2
    /\ Len(detectedHands) = 0


Evaluated ==
    <<participantCount, handGestureStates, handFacingHistory, holdStartTimeRef,
      lastValidConditionTimeRef, timer, warningMessage, capturedWinnerIds,
      captureTimeoutsRef, shouldCapture, winningStableIds, gameState>>

\* C16: every phase change but the one of handleStreamReady (IDLE to
\* SETUP) stamps lastStateChangeTimeRef; a tick less than COOLDOWN_MS
\* after the stamp, and every tick in SETUP, changes neither
\* participantCount, the gesture states, the facing histories, the hold
\* timer, the advisory message, the capture bookkeeping nor the phase.
C16_Cooldown ==
    [][/\ gameState' # gameState
            => \/ lastStateChangeTimeRef' = now'
               \/ gameState = "IDLE" /\ gameState' = "SETUP"
       /\ IsTick /\ (now' - lastStateChangeTimeRef < 300 \/ gameState = "SETUP")
            => UNCHANGED Evaluated]_vars

\* a tick inside the cooldown of WAIT_FOR_FISTS_READY saw every confirmed
\* hand as a fist and did not start the hold
C16_Witness ==
    /\ gameState = "WAIT_FOR_FISTS_READY"
    /\ last.op = "GameLoop"
    /\ now - lastStateChangeTimeRef < 300
    /\ FistCondition(detectedHands, participantCount)
    /\ holdStartTimeRef = Null


\* C17: a track leaves the tracker's list only in a tick in which its count
\* of consecutive unmatched ticks goes above MAX_MISSING_FRAMES, and no
\* track with a count above MAX_MISSING_FRAMES stays in the list.
C17_ExpiryAboveCeiling ==
    [][/\ \A i \in 1..Len(tracks) :
             tracks[i].id \notin TrackIds(tracks')
                => tracks[i].missingCount + 1 > MAX_MISSING_FRAMES
       /\ \A i \in 1..Len(tracks') :
             tracks'[i].missingCount <= MAX_MISSING_FRAMES]_vars


\* the tracks matched or spawned in the last frame
Live(ts) == {i \in 1..Len(ts) : ts[i].missingCount = 0}

\* C18: in every frame each track takes at most one input and each
\* deduplicated input goes to at most one track: the tracks matched or
\* spawned have pairwise distinct ids and pairwise distinct source
\* detections, each of them a deduplicated input; the hands reported have
\* pairwise distinct stable ids, each the id of such a track, and there are
\* no more of them than deduplicated inputs.
C18_OneToOne ==
    [][LET unique == Dedupe(rawInputs')
           sources == {unique[k].index : k \in 1..Len(unique)}
       IN  rawInputs' # rawInputs \/ tracks' # tracks =>
           /\ \A i, j \in Live(tracks') :
                 i # j => /\ tracks'[i].id # tracks'[j].id
                          /\ tracks'[i].mp # tracks'[j].mp
           /\ \A i \in Live(tracks') : tracks'[i].mp \in sources
           /\ \A i \in 1..Len(tracks), j \in 1..Len(tracks') :
                 tracks[i].id = tracks'[j].id =>
                    tracks'[j].frameCount \in {tracks[i].frameCount, tracks[i].frameCount + 1}
           /\ \A i, j \in 1..Len(detectedHandsRef') :
                 i # j => detectedHandsRef'[i].stableId # detectedHandsRef'[j].stableId
           /\ \A i \in 1..Len(detectedHandsRef') :
                 \E k \in Live(tracks') : tracks'[k].id = detectedHandsRef'[i].stableId
           /\ Len(detectedHandsRef') <= Len(unique)]_vars

\* two tracks 0.24 apart, both in reach of either of the two detections of
\* the last frame, each matched with its own
C18_Witness ==
    /\ Len(tracks) = 2
    /\ Len(Dedupe(rawInputs)) = 2
    /\ \A i \in 1..2 : tracks[i].frameCount = 2 /\ tracks[i].missingCount = 0
    /\ Dist(tracks[1].x, tracks[2].x) < MAX_TRACKING_DISTANCE
    /\ Len(detectedHandsRef) = 2


\* C19: a track is matched with an input only if the distance between the
\* track's predicted position and the input, plus the handedness penalty
\* when their labels differ, is below MAX_TRACKING_DISTANCE.
C19_CostGate ==
    [][\A i \in 1..Len(tracks), j \in Live(tracks') :
          tracks[i].id = tracks'[j].id
             => Dist(tracks[i].x + tracks[i].v, tracks'[j].x)
                   + (IF tracks[i].label # tracks'[j].label THEN 5 * Unit ELSE 0)
                < 25 * Unit]_vars


Close(a, b) == Dist(a.x, b.x) < 8 * Unit

\* C20: in every frame the deduplicated inputs are pairwise at least the
\* duplicate threshold apart and every detection discarded is closer than
\* the threshold to one that is kept; two detections closer than the
\* threshold are never the sources of two different tracks matched or
\* spawned in the frame; and two such detections alone, with no track
\* before, leave exactly one track.
C20_Dedup ==
    [][LET raw == rawInputs'
           unique == Dedupe(raw)
       IN  rawInputs' # rawInputs \/ tracks' # tracks =>
           /\ \A a, b \in 1..Len(unique) : a # b => ~Close(unique[a], unique[b])
           /\ \A i \in 1..Len(raw) : \E a \in 1..Len(unique) :
                 unique[a].index = i \/ Close(raw[i], unique[a])
           /\ \A i, j \in 1..Len(raw) :
                 i # j /\ Close(raw[i], raw[j])
                    => ~\E p, q \in Live(tracks') :
                           p # q /\ tracks'[p].mp = i /\ tracks'[q].mp = j
           /\ tracks = <<>> /\ Len(raw) = 2 /\ Close(raw[1], raw[2])
                 => Len(tracks') = 1]_vars

\* three detections, the first within the threshold of both others, have
\* made one track
C20_Witness ==
    /\ Len(rawInputs) = 3
    /\ Close(rawInputs[1], rawInputs[2]) /\ Close(rawInputs[1], rawInputs[3])
    /\ ~Close(rawInputs[2], rawInputs[3])
    /\ Len(tracks) = 1
    /\ tracks[1].mp = 1 /\ tracks[1].frameCount = 1


\* C21: after every frame the hands reported are exactly the tracks that
\* took a detection of that frame (missingCount 0) and whose frameCount is
\* at least FRAME_PERSISTENCE_THRESHOLD, and each reported hand has the
\* facing and the fist flag of the detection its track took in that frame.
C21_ReportedIffMatched ==
    [][rawInputs' # rawInputs \/ tracks' # tracks =>
       /\ SeqIds(detectedHandsRef')
             = {tracks'[i].id : i \in {k \in Live(tracks') : tracks'[k].frameCount >= 1}}
       /\ \A h \in 1..Len(detectedHandsRef') : \E i \in Live(tracks') :
             /\ tracks'[i].id = detectedHandsRef'[h].stableId
             /\ tracks'[i].mp \in 1..Len(rawInputs')
             /\ rawInputs'[tracks'[i].mp].x = tracks'[i].x
             /\ detectedHandsRef'[h].facing = rawInputs'[tracks'[i].mp].facing
             /\ detectedHandsRef'[h].isFist = rawInputs'[tracks'[i].mp].isFist]_vars

\* the left hand went out of view: its track is unmatched and not reported,
\* though the index it remembers is the one the right hand's detection has
\* in the last frame; the right hand is reported with the pose detected
C21_Witness ==
    /\ Len(tracks) = 2 /\ Len(rawInputs) = 1
    /\ tracks[1].missingCount = 1 /\ tracks[1].mp = 1
    /\ tracks[2].missingCount = 0 /\ tracks[2].mp = 1
    /\ Len(detectedHandsRef) = 1
    /\ detectedHandsRef[1].stableId = tracks[2].id
    /\ detectedHandsRef[1].isFist /\ detectedHandsRef[1].facing = "Back"


\* C22: frameCount counts consecutive matches: a track matched in a frame
\* and in the frame before has its frameCount one higher, and a track matched
\* again after a frame in which it was unmatched counts from 1.
C22_ConsecutiveCount ==
    [][\A i \in 1..Len(tracks), j \in Live(tracks') :
          tracks[i].id = tracks'[j].id =>
             tracks'[j].frameCount =
                IF tracks[i].missingCount = 0 THEN tracks[i].frameCount + 1 ELSE 1]_vars


\* C23: a track spawned in a frame is not among the hands reported for
\* that frame.
C23_NoGhost ==
    [][\A j \in 1..Len(tracks') :
          tracks'[j].id \notin TrackIds(tracks)
             => tracks'[j].id \notin SeqIds(detectedHandsRef')]_vars


\* a capture delay elapsed: its callback ran in this step
Elapsed(id) ==
    /\ last'.op = "handler"
    /\ Has(captureTimeoutsRef, id) /\ ~Has(captureTimeoutsRef', id)

\* the tick of this step was evaluated in SHOW_WINNER
ShowEvaluated ==
    /\ IsTick
    /\ gameState = "SHOW_WINNER"
    /\ now' - lastStateChangeTimeRef >= 300
    /\ ~isGalleryOpen

\* C24: a tick evaluated in SHOW_WINNER that sees a winning hand open and
\* not yet captured leaves a delay pending for it; a delay is started only
\* so, CAPTURE_DELAY_MS ahead, and a pending delay is not started anew;
\* when a delay elapses, not before its time, the track is marked captured
\* and a capture is requested; a track is marked captured only by its
\* delay, and only if it was not marked before.
C24_CaptureOnce ==
    [][/\ ShowEvaluated =>
             \A i \in 1..Len(detectedHands') :
                LET h == detectedHands'[i] IN
                h.stableId \in SeqToSet(winningStableIds)
                   /\ ~h.isFist /\ h.stableId \notin capturedWinnerIds
                => Has(captureTimeoutsRef', h.stableId)
       /\ \A id \in DOMAIN captureTimeoutsRef' :
             IF Has(captureTimeoutsRef, id)
             THEN captureTimeoutsRef'[id] = captureTimeoutsRef[id]
             ELSE /\ ShowEvaluated
                  /\ captureTimeoutsRef'[id] = now' + 500
                  /\ id \in SeqToSet(winningStableIds) /\ id \notin capturedWinnerIds
                  /\ \E i \in 1..Len(detectedHands') :
                        detectedHands'[i].stableId = id /\ ~detectedHands'[i].isFist
       /\ \A id \in DOMAIN captureTimeoutsRef :
             Elapsed(id) => /\ now' >= captureTimeoutsRef[id]
                            /\ id \notin capturedWinnerIds
                            /\ id \in capturedWinnerIds'
                            /\ shouldCapture'
       /\ \A id \in capturedWinnerIds' \ capturedWinnerIds : Elapsed(id)]_vars

\* the winner opened the hand, the delay ran out and the track was marked
\* captured; the hand is still open in a later tick and no delay is pending
C24_Witness ==
    /\ gameState = "SHOW_WINNER"
    /\ last.op = "GameLoop"
    /\ now - lastStateChangeTimeRef >= 300
    /\ capturedWinnerIds = SeqToSet(winningStableIds)
    /\ captureTimeoutsRef = EmptyMap
    /\ \E i \in 1..Len(detectedHands) :
          detectedHands[i].stableId \in capturedWinnerIds /\ ~detectedHands[i].isFist


\* C25: a tick in SHOW_WINNER that sees a winning hand as a fist before the
\* hand's pending capture delay has run out leaves no delay pending for it.
C25_FistCancels ==
    [][IsTick /\ gameState = "SHOW_WINNER" =>
          \A i \in 1..Len(detectedHands') :
             LET h == detectedHands'[i] IN
             /\ h.isFist
             /\ Has(captureTimeoutsRef, h.stableId)
             /\ now' < captureTimeoutsRef[h.stableId]
             => ~Has(captureTimeoutsRef', h.stableId)]_vars


\* C26: reset leaves no capture delay pending; a delay is started only by a
\* tick in SHOW_WINNER, so none is pending in SETUP, where reset puts the
\* game; and a step that marks a track captured or requests a capture is
\* the elapsing of a delay that was pending before it, hence of one started
\* after the last reset.
C26_ResetCancels ==
    [][/\ last'.op = "handleReset" =>
             /\ captureTimeoutsRef' = EmptyMap
             /\ capturedWinnerIds' = {} /\ ~shouldCapture'
             /\ gameState' = "SETUP"
       /\ gameState' = "SETUP" => captureTimeoutsRef' = EmptyMap
       /\ \A id \in DOMAIN captureTimeoutsRef' \ DOMAIN captureTimeoutsRef :
             IsTick /\ gameState = "SHOW_WINNER"
       /\ capturedWinnerIds' \ capturedWinnerIds # {} \/ (shouldCapture' /\ ~shouldCapture)
             => \E id \in DOMAIN captureTimeoutsRef : Elapsed(id)]_vars

\* reset was called while a capture delay was pending
C26_Witness ==
    /\ last.op = "handleReset" /\ last.prevCond = "pending"
    /\ captureTimeoutsRef = EmptyMap
    /\ gameState = "SETUP"


\* C27: reset, in whatever phase it is called, leaves the game in SETUP
\* with participantCount 0, no winner, no captured track, no gesture state,
\* no facing history, no hold (holdStartTimeRef null, timer 0, no last
\* valid time) and no advisory message.
C27_ResetClears ==
    [][last'.op = "handleReset" =>
          /\ gameState' = "SETUP"
          /\ participantCount' = 0
          /\ winningStableIds' = <<>>
          /\ capturedWinnerIds' = {}
          /\ handGestureStates' = EmptyMap
          /\ handFacingHistory' = EmptyMap
          /\ holdStartTimeRef' = Null /\ timer' = 0 /\ lastValidConditionTimeRef' = 0
          /\ warningMessage' = "none"]_vars

\* reset was called in SHOW_WINNER, after the draw, with hands in view
C27_Witness ==
    /\ last.op = "handleReset" /\ last.cond = "SHOW_WINNER"
    /\ gameState = "SETUP"
    /\ winningStableIds = <<>> /\ participantCount = 0
    /\ Len(detectedHands) = 2


\* C28: in SET_WINNER_COUNT a tick that is evaluated while a hold is
\* running and whose finger sum differs from the sum the hold was started
\* with restarts the hold at once (holdStartTimeRef = now, timer 0); and
\* the phase advances only on a tick whose sum is valid, is the one the hold
\* was started with and has lasted longer than the hold duration.
C28_SumChangeRestarts ==
    [][LET total == TotalFingers(detectedHands') IN
       /\ /\ last'.op = "GameLoop" /\ gameState = "SET_WINNER_COUNT"
          /\ now' - lastStateChangeTimeRef >= 1000 /\ ~isGalleryOpen
          /\ holdStartTimeRef # Null
          /\ total # candidateWinnerCountRef
          => holdStartTimeRef' = now' /\ timer' = 0
       /\ gameState = "SET_WINNER_COUNT" /\ gameState' # gameState
          => /\ gameState' = "WAIT_FOR_FISTS_PRE_DRAW"
             /\ total = candidateWinnerCountRef
             /\ total >= 1 /\ total < participantCount
             /\ now' - holdStartTimeRef > 3000]_vars


Running(f) == {g \in DOMAIN f : f[g] = "running"}

\* C29: at most one inference is running at any time; an inference is
\* submitted only when none is running; and a call of detect that finds one
\* running, or the video not ready, submits nothing and leaves nothing
\* behind to be submitted later.
C29_OneInFlight ==
    [][/\ Cardinality(Running(inFlight')) <= 1
       /\ Running(inFlight') \ Running(inFlight) # {} => Running(inFlight) = {}
       /\ last'.op = "detect" /\ Running(inFlight) # {}
             => /\ Running(inFlight') = Running(inFlight)
                /\ \A g \in DOMAIN loopAt : loopAt'[g] = "await" => loopAt[g] = "await"]_vars

\* the loop of a later run of the camera effect was called while the
\* inference of the first run was running, and skipped
C29_Witness ==
    /\ last.op = "detect" /\ last.cond = "skipped"
    /\ inFlight[1] = "running"
    /\ generation = 2 /\ loopAt[2] = "raf"


----------------------------------------------------------------------------
\* --- hands at two places, whose detections may come with a landmark list
\* of 5 or of 15 points instead of 21
MalformedHorizon == 120
MalformedDeltas == {40}
MalformedPlaces == {30, 70}
ShortLists == {5, 15}
MalformedFrames ==
    LET Whole == {[x |-> x * Unit, label |-> "Right", facing |-> "Palm", isFist |-> z] :
                     x \in MalformedPlaces, z \in BOOLEAN}
        Short == {[x |-> x * Unit, label |-> "Right", facing |-> "Palm", isFist |-> FALSE,
                   points |-> n] : x \in MalformedPlaces, n \in ShortLists}
        One == Whole \cup Short
    IN  {<<>>} \cup {<<a>> : a \in One}
               \cup {<<a, b>> : a \in {o \in One : o.x = 30 * Unit},
                                b \in {o \in One : o.x = 70 * Unit}}
NextMalformed == Frame(MalformedDeltas, MalformedFrames, MalformedHorizon)
SpecMalformed == Init /\ [][NextMalformed]_vars

\* C30: in a tick whose result holds a detection with too few landmarks,
\* every detection with all its landmarks is still followed by a track
\* matched or spawned in the tick and reported under that track's id with
\* the pose read in the tick, and the list of reported hands holds nothing else
C30_MalformedRejected ==
    [][LET raw == rawInputs'
           whole == {i \in 1..Len(raw) : HasLandmark(raw[i], PINKY_TIP)}
       IN  now' > now /\ whole # 1..Len(raw) =>
              /\ Len(detectedHandsRef') = Cardinality(whole)
              /\ \A i \in whole :
                    \E k \in 1..Len(tracks') : \E h \in 1..Len(detectedHandsRef') :
                        /\ tracks'[k].mp = i
                        /\ tracks'[k].missingCount = 0
                        /\ tracks'[k].x = raw[i].x
                        /\ detectedHandsRef'[h].stableId = tracks'[k].id
                        /\ detectedHandsRef'[h].isFist = raw[i].isFist]_vars


\* C31: a tick of WAIT_FOR_FISTS_READY that delivers no hand finds the hold
\* condition not met: it does not leave the phase, it does not start a hold
\* or advance the timer, and it drops a running hold only if more than the
\* grace window has passed since the condition last held.
C31_NoHandsNotMet ==
    [][IsTick /\ gameState = "WAIT_FOR_FISTS_READY" /\ detectedHands' = <<>> =>
          /\ participantCount >= 1
          /\ last'.cond # "met"
          /\ gameState' = gameState
          /\ \/ holdStartTimeRef' = holdStartTimeRef /\ timer' = timer
             \/ /\ holdStartTimeRef # Null
                /\ holdStartTimeRef' = Null /\ timer' = 0
                /\ now' - lastValidConditionTimeRef > GRACE_PERIOD_MS
                /\ lastValidConditionTimeRef >= holdStartTimeRef]_vars

\* a hold is running and a tick without hands has just left it running
C31_Witness ==
    /\ gameState = "WAIT_FOR_FISTS_READY"
    /\ last.op = "GameLoop" /\ last.cond = "unmet"
    /\ detectedHands = <<>>
    /\ holdStartTimeRef # Null /\ timer > 0


----------------------------------------------------------------------------
\* --- the winner announcement with the tracker: two hands that have been
\* tracked at two places through the round; after the draw took one of them
\* each of them opens, closes, leaves the view and comes back, frames a
\* quarter of a second apart, the capture timers firing in any order
AbsentHorizon == 1250
FramesSeen == 14            \* frames in which the hands were matched before the draw
AbsentDeltas == {250}
AbsentPlaces == {30, 70}
AbsentFrames ==
    LET At(x) == {<<[x |-> x * Unit, label |-> "Right", facing |-> "Back", isFist |-> z]>> :
                     z \in BOOLEAN}
    IN  {<<>>} \cup At(30) \cup At(70) \cup {a \o b : a \in At(30), b \in At(70)}

InitAbsent ==
    /\ now = StartTime
    /\ gameState = "SHOW_WINNER"
    /\ participantCount = 2
    /\ winnerCount = 1
    /\ detectedHands = [i \in 1..2 |-> [stableId |-> FIRST_STABLE_ID + i - 1,
                                        facing |-> "Back", isFist |-> TRUE]]
    /\ winningStableIds \in {<<FIRST_STABLE_ID>>, <<FIRST_STABLE_ID + 1>>}
    /\ warningMessage = "none"
    /\ timer = 0
    /\ holdStartTimeRef = Null
    /\ lastValidConditionTimeRef = 0
    /\ lastStateChangeTimeRef = StartTime
    /\ handGestureStates = EmptyMap
    /\ handFacingHistory = EmptyMap
    /\ isGalleryOpen = FALSE
    /\ capturedWinnerIds = {}
    /\ captureTimeoutsRef = EmptyMap
    /\ shouldCapture = FALSE
    /\ candidateWinnerCountRef = Null
    /\ seen = Observe(EmptyMap, detectedHands, StartTime)
    /\ last = Obs("handler", <<"SHOW_WINNER">>)
    /\ tracks = [i \in 1..2 |->
                   [id |-> FIRST_STABLE_ID + i - 1,
                    x |-> (IF i = 1 THEN 30 ELSE 70) * Unit, v |-> 0,
                    frameCount |-> FramesSeen, missingCount |-> 0,
                    label |-> "Right", mp |-> i]]
    /\ nextStableId = FIRST_STABLE_ID + 2
    /\ detectedHandsRef = detectedHands
    /\ lastLogicUpdateTimeRef = StartTime
    /\ lastHandCountRef = 2
    /\ trail = [ok |-> FALSE, x |-> -1, id |-> 0]
    /\ rawInputs = [i \in 1..2 |-> [x |-> (IF i = 1 THEN 30 ELSE 70) * Unit, label |-> "Right",
                                    facing |-> "Back", isFist |-> TRUE]]
    /\ isDetectingRef = FALSE
    /\ generation = 1
    /\ loopAt = [g \in 1..MaxGenerations |-> IF g = 1 THEN "raf" ELSE "none"]
    /\ inFlight = [g \in 1..MaxGenerations |-> "none"]

NextAbsent ==
    \/ Frame(AbsentDeltas, AbsentFrames, AbsentHorizon)
    \/ \E id \in DOMAIN captureTimeoutsRef : captureTimeout(id)
    \/ handleCaptureComplete
SpecAbsent == InitAbsent /\ [][NextAbsent]_vars

\* C32: in SHOW_WINNER a winning track that a frame leaves unmatched for
\* fewer frames than MAX_MISSING_FRAMES stays in the track list, and while
\* the winner is not in the published hand list no step marks it captured
\* or starts a capture delay for it.
C32_AbsentKeptNoCapture ==
    [][gameState = "SHOW_WINNER" =>
          /\ \A i \in 1..Len(tracks) :
                /\ now' > now
                /\ tracks[i].id \in SeqToSet(winningStableIds)
                /\ tracks[i].missingCount + 1 < MAX_MISSING_FRAMES
                => \E k \in 1..Len(tracks') : tracks'[k].id = tracks[i].id
          /\ \A id \in SeqToSet(winningStableIds) \ SeqIds(detectedHands') :
                /\ id \in capturedWinnerIds' => id \in capturedWinnerIds
                /\ Has(captureTimeoutsRef', id) => Has(captureTimeoutsRef, id)]_vars


----------------------------------------------------------------------------
\* --- a round from the detection on: three hands that stay in view, turn
\* and close together; the participants are confirmed within the first
\* second, and from then on every tick reports three fists
EndToEndHorizon == 5000
EndToEndPresses == 1000
EndToEndDeltas == {500}
ThreeHands(f, z) ==
    [i \in 1..3 |-> [stableId |-> FIRST_STABLE_ID + i - 1, facing |-> f, isFist |-> z]]
ThreeIds == SeqIds(ThreeHands("Back", TRUE))

InitEndToEnd ==
    /\ now = StartTime
    /\ gameState = "DETECT_PARTICIPANTS"
    /\ participantCount = 0
    /\ winnerCount = 1
    /\ detectedHands = <<>>
    /\ winningStableIds = <<>>
    /\ warningMessage = "none"
    /\ timer = 0
    /\ holdStartTimeRef = Null
    /\ lastValidConditionTimeRef = 0
    /\ lastStateChangeTimeRef = StartTime
    /\ handGestureStates = EmptyMap
    /\ handFacingHistory = EmptyMap
    /\ isGalleryOpen = FALSE
    /\ capturedWinnerIds = {}
    /\ captureTimeoutsRef = EmptyMap
    /\ shouldCapture = FALSE
    /\ candidateWinnerCountRef = Null
    /\ seen = EmptyMap
    /\ last = Obs("handler", <<"DETECT_PARTICIPANTS">>)
    /\ InitTracker

EndToEndTick ==
    \/ /\ gameState = "DETECT_PARTICIPANTS"
       /\ Tick(EndToEndDeltas,
               {ThreeHands(f, z) : f \in {"Palm", "Back"}, z \in BOOLEAN},
               EndToEndPresses)
    \/ /\ gameState # "DETECT_PARTICIPANTS"
       /\ Tick(EndToEndDeltas, {ThreeHands(f, TRUE) : f \in {"Palm", "Back"}},
               EndToEndHorizon)

EndToEndConfirm ==
    /\ now <= StartTime + EndToEndPresses
    /\ handleConfirmParticipants

NextEndToEnd == EndToEndConfirm \/ EndToEndTick
SpecEndToEnd == InitEndToEnd /\ [][NextEndToEnd]_vars /\ WF_vars(EndToEndTick)

\* the draw has taken exactly one of the three hands
OneOfThree ==
    /\ gameState = "SHOW_WINNER"
    /\ Len(winningStableIds) = 1
    /\ winningStableIds[1] \in ThreeIds

\* C33: with three hands in view, participantCount 3 and winnerCount 1, a
\* round whose participants have been confirmed and whose ticks all report
\* three fists reaches SHOW_WINNER with exactly one winning id, one of the
\* three, and while the draw is to come each of the three ids is a value
\* the draw can give.
C33_EndToEnd ==
    /\ (gameState = "WAIT_FOR_FISTS_READY") ~> OneOfThree
    /\ [](gameState = "SHOW_WINNER" => OneOfThree)
    /\ [](gameState = "WAIT_FOR_FISTS_READY" =>
            /\ participantCount = 3
            /\ \A id \in ThreeIds :
                  \E js \in ShuffleChoices(PoolSize(ThreeHands("Back", TRUE), participantCount)) :
                      DrawIds(ThreeHands("Back", TRUE), participantCount, winnerCount, js) = <<id>>)

\* the draw of a tick has taken the third hand
C33_Witness ==
    /\ OneOfThree
    /\ last.op = "GameLoop" /\ last.sets = <<"DRAWING", "SHOW_WINNER">>
    /\ winningStableIds = <<FIRST_STABLE_ID + 2>>
    /\ now - lastStateChangeTimeRef = 0


----------------------------------------------------------------------------
\* --- the shuffle as a function of the random values: up to ShufflePool
\* hands in view, in the phase changeState(DRAWING) has just set
ShufflePool == 5
ShuffleWinners == 3
ShuffleHands(n) ==
    [i \in 1..n |-> [stableId |-> FIRST_STABLE_ID + i - 1, facing |-> "Back", isFist |-> TRUE]]

InitShuffle ==
    /\ now = StartTime
    /\ gameState = "DRAWING"
    /\ participantCount \in 1..ShufflePool
    /\ winnerCount \in 1..ShuffleWinners
    /\ detectedHands = ShuffleHands(participantCount)
    /\ winningStableIds = <<>>
    /\ warningMessage = "none"
    /\ timer = 0
    /\ holdStartTimeRef = Null
    /\ lastValidConditionTimeRef = 0
    /\ lastStateChangeTimeRef = StartTime
    /\ handGestureStates = EmptyMap
    /\ handFacingHistory = EmptyMap
    /\ isGalleryOpen = FALSE
    /\ capturedWinnerIds = {}
    /\ captureTimeoutsRef = EmptyMap
    /\ shouldCapture = FALSE
    /\ candidateWinnerCountRef = Null
    /\ seen = EmptyMap
    /\ last = Obs("handler", <<"DRAWING">>)
    /\ InitTracker

NextShuffle == performDraw
SpecShuffle == InitShuffle /\ [][NextShuffle]_vars

\* the arrangements of the pool indices 0..n-1
Arrangements(n) ==
    {p \in [1..n -> 0..(n - 1)] : \A a, b \in 1..n : p[a] = p[b] => a = b}

\* the indices after the shuffle of a pool of n with the random values js
Shuffled(n, js) == FisherYates([k \in 1..n |-> k - 1], n - 1, js)

\* C34: over the sequences of values the random source can give, one value
\* of 0..i for each i, the shuffle yields every arrangement of the pool
\* indices, and no arrangement from two sequences; hence each pool index is
\* among the first countToSelect in the same share countToSelect / poolSize
\* of the sequences; the winners of a draw are the hands at the first
\* countToSelect indices of one of these arrangements.
C34_Unbiased ==
    LET n == PoolSize(detectedHands, participantCount)
        c == Min(winnerCount, n)
        all == ShuffleChoices(n)
    IN  /\ gameState = "DRAWING" =>
              /\ {Shuffled(n, js) : js \in all} = Arrangements(n)
              /\ Cardinality(all) = Cardinality(Arrangements(n))
              /\ \A k \in 0..(n - 1) :
                    Cardinality({js \in all : \E q \in 1..c : Shuffled(n, js)[q] = k}) * n
                       = c * Cardinality(all)
        /\ gameState = "SHOW_WINNER" =>
              \E js \in all :
                  winningStableIds = [q \in 1..c |-> detectedHands[Shuffled(n, js)[q] + 1].stableId]

\* a draw of two among five has taken the last hand and then the first
C34_Witness ==
    /\ gameState = "SHOW_WINNER"
    /\ Len(detectedHands) = 5 /\ winnerCount = 2
    /\ winningStableIds = <<FIRST_STABLE_ID + 4, FIRST_STABLE_ID>>


----------------------------------------------------------------------------
\* --- the winner announcement with two winners: the round of three
\* confirmed hands right after the draw took two of them; each hand opens
\* and closes, ticks a quarter of a second apart, the capture timers firing
\* and the captures completing in any order
PairHorizon == 1250
PairDeltas == {250}
PairLists ==
    {[i \in 1..3 |-> [stableId |-> FIRST_STABLE_ID + i - 1, facing |-> "Back", isFist |-> z[i]]] :
        z \in [1..3 -> BOOLEAN]}

InitPair ==
    /\ now = StartTime
    /\ gameState = "SHOW_WINNER"
    /\ participantCount = 3
    /\ winnerCount = 2
    /\ detectedHands = ThreeHands("Back", TRUE)
    /\ winningStableIds \in {<<FIRST_STABLE_ID, FIRST_STABLE_ID + 1>>,
                             <<FIRST_STABLE_ID + 2, FIRST_STABLE_ID>>}
    /\ warningMessage = "none"
    /\ timer = 0
    /\ holdStartTimeRef = Null
    /\ lastValidConditionTimeRef = 0
    /\ lastStateChangeTimeRef = StartTime
    /\ handGestureStates = EmptyMap
    /\ handFacingHistory = EmptyMap
    /\ isGalleryOpen = FALSE
    /\ capturedWinnerIds = {}
    /\ captureTimeoutsRef = EmptyMap
    /\ shouldCapture = FALSE
    /\ candidateWinnerCountRef = Null
    /\ seen = Observe(EmptyMap, detectedHands, StartTime)
    /\ last = Obs("handler", <<"SHOW_WINNER">>)
    /\ InitTracker

NextPair ==
    \/ Tick(PairDeltas, PairLists, PairHorizon)
    \/ \E id \in DOMAIN captureTimeoutsRef : captureTimeout(id)
    \/ handleCaptureComplete
SpecPair == InitPair /\ [][NextPair]_vars

\* C35: every step that marks a winner captured marks one winner and raises
\* a capture request of its own: none is pending at that moment, with which
\* the new one would be merged into a single capture.
C35_RequestPerWinner ==
    [][capturedWinnerIds' # capturedWinnerIds /\ capturedWinnerIds' # {} =>
          /\ Cardinality(capturedWinnerIds' \ capturedWinnerIds) = 1
          /\ ~shouldCapture
          /\ shouldCapture']_vars


\* C36 as stated: the step of a hand is one of 0..3, and a step changes
\* only by going up by one or by going to 0.
C36_StepUpOrZero ==
    [][\A id \in (DOMAIN handGestureStates) \cup (DOMAIN handGestureStates') :
          LET k == StepOf(handGestureStates, id)
              next == StepOf(handGestureStates', id)
          IN  /\ next \in 0..3
              /\ next = k \/ next = k + 1 \/ next = 0]_vars

\* C36 amended: the step of a hand is one of 0..3, and a step changes only
\* by going up by one, by going to 0, or by going to 1 in a tick that finds
\* the stored step timed out.
C36_StepUpZeroOrRestart ==
    [][\A id \in (DOMAIN handGestureStates) \cup (DOMAIN handGestureStates') :
          LET k == StepOf(handGestureStates, id)
              next == StepOf(handGestureStates', id)
          IN  /\ next \in 0..3
              /\ \/ next = k \/ next = k + 1 \/ next = 0
                 \/ /\ next = 1
                    /\ IsTick
                    /\ Has(handGestureStates, id)
                    /\ GestureTimedOut(handGestureStates[id], now')
                    /\ handGestureStates'[id].lastTime = now']_vars

\* a hand is at step 3
C36_Witness ==
    /\ gameState = "DETECT_PARTICIPANTS"
    /\ last.op = "GameLoop"
    /\ \E id \in DOMAIN handGestureStates :
          handGestureStates[id].step = 3 /\ handGestureStates[id].lastTime = now


----------------------------------------------------------------------------
\* --- the winner announcement with three hands side by side, 0.10 and 0.12
\* apart, tracked through the round; after the draw took the left one or
\* the left two, up to two hands are detected in a frame, at the places of
\* the tracks or between them
StickyHorizon == 120
StickyDeltas == {40}
StickyTracks == <<30, 40, 52>>
StickyPlaces == {30, 37, 40, 52}
StickyFrames ==
    LET At(x) == <<[x |-> x * Unit, label |-> "Right", facing |-> "Back", isFist |-> TRUE]>>
    IN  {<<>>} \cup {At(x) : x \in StickyPlaces}
               \cup {At(x) \o At(y) : x, y \in StickyPlaces}

InitSticky ==
    /\ now = StartTime
    /\ gameState = "SHOW_WINNER"
    /\ participantCount = 3
    /\ winnerCount \in 1..2
    /\ detectedHands = ThreeHands("Back", TRUE)
    /\ winningStableIds = [i \in 1..winnerCount |-> FIRST_STABLE_ID + i - 1]
    /\ warningMessage = "none"
    /\ timer = 0
    /\ holdStartTimeRef = Null
    /\ lastValidConditionTimeRef = 0
    /\ lastStateChangeTimeRef = StartTime
    /\ handGestureStates = EmptyMap
    /\ handFacingHistory = EmptyMap
    /\ isGalleryOpen = FALSE
    /\ capturedWinnerIds = {}
    /\ captureTimeoutsRef = EmptyMap
    /\ shouldCapture = FALSE
    /\ candidateWinnerCountRef = Null
    /\ seen = Observe(EmptyMap, detectedHands, StartTime)
    /\ last = Obs("handler", <<"SHOW_WINNER">>)
    /\ tracks = [i \in 1..3 |->
                   [id |-> FIRST_STABLE_ID + i - 1, x |-> StickyTracks[i] * Unit, v |-> 0,
                    frameCount |-> FramesSeen, missingCount |-> 0,
                    label |-> "Right", mp |-> i]]
    /\ nextStableId = FIRST_STABLE_ID + 3
    /\ detectedHandsRef = detectedHands
    /\ lastLogicUpdateTimeRef = StartTime
    /\ lastHandCountRef = 3
    /\ trail = [ok |-> FALSE, x |-> -1, id |-> 0]
    /\ rawInputs = [i \in 1..3 |-> [x |-> StickyTracks[i] * Unit, label |-> "Right",
                                    facing |-> "Back", isFist |-> TRUE]]
    /\ isDetectingRef = FALSE
    /\ generation = 1
    /\ loopAt = [g \in 1..MaxGenerations |-> IF g = 1 THEN "raf" ELSE "none"]
    /\ inFlight = [g \in 1..MaxGenerations |-> "none"]

NextSticky == Frame(StickyDeltas, StickyFrames, StickyHorizon)
SpecSticky == InitSticky /\ [][NextSticky]_vars

Unmatched(ts, id) == \A k \in 1..Len(ts) : ts[k].id = id => ts[k].missingCount > 0

\* the detections of the frame within the sticky distance of the place
\* predicted for the track t
NearInputs(t, raw) ==
    {j \in 1..Len(raw) : Dist(PredictTrack(t).x, raw[j].x) < STICKY_DISTANCE}

\* C37 as stated: in a frame that leaves a winning track unmatched, no
\* track that is not a winner is matched to a detection within 0.12 of the
\* place predicted for that winning track; and a detection within 0.12 of
\* the place predicted for any winning track is matched to winning tracks
\* only.
C37_StickyAlways ==
    [][now' > now =>
        \A w \in 1..Len(tracks) : tracks[w].id \in SeqToSet(winningStableIds) =>
            \A j \in NearInputs(tracks[w], rawInputs') :
                \A k \in 1..Len(tracks') :
                    tracks'[k].mp = j /\ tracks'[k].missingCount = 0
                    => tracks'[k].id \in SeqToSet(winningStableIds)]_vars

\* C37 amended: in a frame that leaves a winning track unmatched, a
\* detection within 0.12 of the place predicted for that winning track is
\* matched to winning tracks only.
C37_StickyUnmatched ==
    [][now' > now =>
        \A w \in 1..Len(tracks) :
            /\ tracks[w].id \in SeqToSet(winningStableIds)
            /\ Unmatched(tracks', tracks[w].id)
            => \A j \in NearInputs(tracks[w], rawInputs') :
                  \A k \in 1..Len(tracks') :
                      tracks'[k].mp = j /\ tracks'[k].missingCount = 0
                      => tracks'[k].id \in SeqToSet(winningStableIds)]_vars

\* the last frame left a winning track unmatched, and another winning track
\* took a detection within 0.12 of the place predicted for it that was
\* within the tracking distance of an unmatched track that is no winner
C37_Witness ==
    \E w, m, n \in 1..Len(tracks) :
        /\ tracks[w].id \in SeqToSet(winningStableIds)
        /\ tracks[m].id \in SeqToSet(winningStableIds)
        /\ tracks[n].id \notin SeqToSet(winningStableIds)
        /\ tracks[w].missingCount = 1
        /\ tracks[m].missingCount = 0
        /\ tracks[n].missingCount = 1
        /\ Len(rawInputs) = 1
        /\ rawInputs[1].x = tracks[m].x
        /\ Dist(tracks[w].x, tracks[m].x) < STICKY_DISTANCE
        /\ Dist(tracks[n].x, tracks[m].x) < MAX_TRACKING_DISTANCE


\* the result of an inference is handed to the handler in this step
Delivered ==
    \E g \in 1..MaxGenerations : inFlight[g] = "running" /\ inFlight'[g] = "delivered"

\* C38: every result handed to the handler while the camera layer is
\* mounted, also after the camera was toggled, is taken into the track
\* list: each track is matched in it (one more frame counted, nothing
\* missing) or is aged by one missing frame or is dropped, and the hands
\* published are those of the tracks matched in it.
C38_ResultsUpdate ==
    [][Delivered =>
          /\ \A i \in 1..Len(tracks) :
                \/ \A k \in 1..Len(tracks') : tracks'[k].id # tracks[i].id
                \/ \E k \in 1..Len(tracks') :
                      /\ tracks'[k].id = tracks[i].id
                      /\ \/ /\ tracks'[k].missingCount = 0
                            /\ tracks'[k].frameCount = tracks[i].frameCount + 1
                         \/ tracks'[k].missingCount = tracks[i].missingCount + 1
          /\ SeqIds(detectedHandsRef') =
                {tracks'[k].id : k \in {q \in 1..Len(tracks') : tracks'[q].missingCount = 0}}]_vars


\* C39: a tick that evaluates a running hold more than the grace window
\* after the last tick on which the condition held starts the hold over
\* (the hold is dropped, or begins anew at this tick), and so no hold
\* succeeds on such a tick: between the start of a hold and its success no
\* two consecutive condition-true ticks are further apart than the window.
C39_GapRestarts ==
    [][/\ IsTick
       /\ WaitEvaluated
       /\ holdStartTimeRef # Null
       /\ now' - lastValidConditionTimeRef > GRACE_PERIOD_MS
       => /\ ~Fired
          /\ holdStartTimeRef' \in {Null, now'}
          /\ timer' = 0]_vars


\* C40: in WAIT_FOR_FISTS_READY, DRAWING and SHOW_WINNER the winner count
\* is at least 1 and less than the participant count, and the draw has not
\* taken every participant.
C40_WinnersFewer ==
    gameState \in {"WAIT_FOR_FISTS_READY", "DRAWING", "SHOW_WINNER"} =>
        /\ 1 <= winnerCount
        /\ winnerCount < participantCount
        /\ Len(winningStableIds) < participantCount

====
